---- MODULE Spec2Model ----
(***************************************************************************)
(* Bank statement processor: the narration-parsing and classification      *)
(* engine (utils/helpers.py, parsers/*.py, config/constants.py).           *)
(*                                                                         *)
(* Text is modelled as a sequence of one-character strings, so that        *)
(* str.upper, str.strip, str.split, the "in" test, zfill and the regular   *)
(* expressions of the source are computed character by character.          *)
(***************************************************************************)
EXTENDS Integers, Sequences, FiniteSets, TLC

\* ------------------------------------------------------------------ text

Digits == {"0","1","2","3","4","5","6","7","8","9"}

UpperLetters ==
  {"A","B","C","D","E","F","G","H","I","J","K","L","M",
   "N","O","P","Q","R","S","T","U","V","W","X","Y","Z"}

LowerLetters ==
  {"a","b","c","d","e","f","g","h","i","j","k","l","m",
   "n","o","p","q","r","s","t","u","v","w","x","y","z"}

Letters == UpperLetters \cup LowerLetters

\* str.upper on one character
ToUpperChar(c) ==
  CASE c = "a" -> "A" [] c = "b" -> "B" [] c = "c" -> "C" [] c = "d" -> "D"
    [] c = "e" -> "E" [] c = "f" -> "F" [] c = "g" -> "G" [] c = "h" -> "H"
    [] c = "i" -> "I" [] c = "j" -> "J" [] c = "k" -> "K" [] c = "l" -> "L"
    [] c = "m" -> "M" [] c = "n" -> "N" [] c = "o" -> "O" [] c = "p" -> "P"
    [] c = "q" -> "Q" [] c = "r" -> "R" [] c = "s" -> "S" [] c = "t" -> "T"
    [] c = "u" -> "U" [] c = "v" -> "V" [] c = "w" -> "W" [] c = "x" -> "X"
    [] c = "y" -> "Y" [] c = "z" -> "Z" [] OTHER -> c

\* str.upper
Upper(s) == [i \in 1..Len(s) |-> ToUpperChar(s[i])]

\* str.lower on one character
ToLowerChar(c) ==
  CASE c = "A" -> "a" [] c = "B" -> "b" [] c = "C" -> "c" [] c = "D" -> "d"
    [] c = "E" -> "e" [] c = "F" -> "f" [] c = "G" -> "g" [] c = "H" -> "h"
    [] c = "I" -> "i" [] c = "J" -> "j" [] c = "K" -> "k" [] c = "L" -> "l"
    [] c = "M" -> "m" [] c = "N" -> "n" [] c = "O" -> "o" [] c = "P" -> "p"
    [] c = "Q" -> "q" [] c = "R" -> "r" [] c = "S" -> "s" [] c = "T" -> "t"
    [] c = "U" -> "u" [] c = "V" -> "v" [] c = "W" -> "w" [] c = "X" -> "x"
    [] c = "Y" -> "y" [] c = "Z" -> "z" [] OTHER -> c

\* str.lower
Lower(s) == [i \in 1..Len(s) |-> ToLowerChar(s[i])]

\* \s of the regular expressions and the characters str.strip removes
IsSpace(c) == c = " "

IsDigit(c) == c \in Digits

IsAlpha(c) == c \in Letters

IsAlnum(c) == c \in Letters \cup Digits

RECURSIVE LStrip(_)
LStrip(s) == IF s # <<>> /\ IsSpace(s[1]) THEN LStrip(Tail(s)) ELSE s

RECURSIVE RStrip(_)
RStrip(s) ==
  IF s # <<>> /\ IsSpace(s[Len(s)]) THEN RStrip(SubSeq(s, 1, Len(s) - 1)) ELSE s

\* str.strip
Strip(s) == RStrip(LStrip(s))

\* str.startswith
StartsWith(s, p) == Len(p) <= Len(s) /\ SubSeq(s, 1, Len(p)) = p

\* whether sub occurs in s at position i
OccursAt(s, sub, i) ==
  i >= 1 /\ i + Len(sub) - 1 <= Len(s) /\ SubSeq(s, i, i + Len(sub) - 1) = sub

\* sub in s
Contains(s, sub) == \E i \in 1..(Len(s) - Len(sub) + 1) : OccursAt(s, sub, i)

\* any(k in s for k in keys)
ContainsAny(s, keys) == \E k \in keys : Contains(s, k)

\* str.split(sep) for a one-character separator: empty parts are kept
RECURSIVE SplitAcc(_, _, _, _)
SplitAcc(s, sep, i, cur) ==
  IF i > Len(s) THEN <<cur>>
  ELSE IF s[i] = sep THEN <<cur>> \o SplitAcc(s, sep, i + 1, <<>>)
  ELSE SplitAcc(s, sep, i + 1, Append(cur, s[i]))

Split(s, sep) == SplitAcc(s, sep, 1, <<>>)

\* the characters of s that satisfy the class, in order: re.sub(r'[^class]', '', s)
RECURSIVE KeepChars(_, _)
KeepChars(s, class) ==
  IF s = <<>> THEN <<>>
  ELSE IF s[1] \in class THEN <<s[1]>> \o KeepChars(Tail(s), class)
  ELSE KeepChars(Tail(s), class)

\* A plausible slip: the text cut to its last `width` characters after the fill
ZFillExact(s, width) ==
  LET filled == [i \in 1..width |-> "0"] \o s
  IN SubSeq(filled, Len(filled) - width + 1, Len(filled))

\* str.zfill(width) for an unsigned digit string
RECURSIVE ZFill(_, _)
ZFill(s, width) == IF Len(s) >= width THEN s ELSE ZFill(<<"0">> \o s, width)

\* the end of the longest run of characters of the class that starts at i
\* (i - 1 when s[i] is not in the class)
RECURSIVE RunEnd(_, _, _)
RunEnd(s, i, class) ==
  IF i <= Len(s) /\ s[i] \in class THEN RunEnd(s, i + 1, class) ELSE i - 1

\* ' '.join(parts)
RECURSIVE JoinSpace(_)
JoinSpace(parts) ==
  IF parts = <<>> THEN <<>>
  ELSE IF Len(parts) = 1 THEN parts[1]
  ELSE parts[1] \o <<" ">> \o JoinSpace(Tail(parts))

\* ------------------------------------------------- remark classification

\* A plausible slip: the narration stripped but left in the case it was written in
normalize_narration_as_written(description) == Strip(description)

\* normalize_narration: description.upper().strip(), "" for blank text
normalize_narration(description) ==
  IF Strip(description) = <<>> THEN <<>> ELSE Strip(Upper(description))

\* Width the cheque numbers are zero-filled to (zfill(6))
ChequeWidth == 6

\* extract_cheque_number_from_clg: the digits of the part after "CLG/", zero-filled
extract_cheque_number_from_clg(description) ==
  IF Strip(description) = <<>> THEN <<>>
  ELSE LET description_upper == Strip(Upper(description)) IN
    IF ~StartsWith(description_upper, <<"C","L","G","/">>) THEN <<>>
    ELSE LET parts == Split(description_upper, "/") IN
      IF Len(parts) < 2 THEN <<>>
      ELSE LET cheque_num_str == Strip(parts[2])
               cheque_digits == KeepChars(cheque_num_str, Digits) IN
        IF cheque_digits = <<>> THEN <<>>
        ELSE ZFill(cheque_digits, ChequeWidth)

\* The places where re.search(r'REJECT[:\s]+(\d+)', s) can match: "REJECT" at i,
\* then one or more of ':' and white space, then a digit
RejectMatchAt(s, i) ==
  /\ OccursAt(s, <<"R","E","J","E","C","T">>, i)
  /\ LET e == RunEnd(s, i + 6, {":", " "}) IN
       e >= i + 6 /\ e + 1 <= Len(s) /\ IsDigit(s[e + 1])

\* extract_cheque_number_from_reject: group 1 of the leftmost match, zero-filled
extract_cheque_number_from_reject(description) ==
  IF Strip(description) = <<>> THEN <<>>
  ELSE LET description_upper == Strip(Upper(description)) IN
    IF ~Contains(description_upper, <<"R","E","J","E","C","T">>) THEN <<>>
    ELSE LET hits == {i \in 1..Len(description_upper) : RejectMatchAt(description_upper, i)} IN
      IF hits = {} THEN <<>>
      ELSE LET i == CHOOSE h \in hits : \A g \in hits : h <= g
               b == RunEnd(description_upper, i + 6, {":", " "}) + 1
               e == RunEnd(description_upper, b, Digits)
           IN ZFill(SubSeq(description_upper, b, e), ChequeWidth)

\* re.search of three words separated by \s* (CHQ\s*RTN\s*CHG and its variants)
WordsSpacedAt(s, w1, w2, w3, i) ==
  /\ OccursAt(s, w1, i)
  /\ LET j == RunEnd(s, i + Len(w1), {" "}) + 1 IN
       /\ OccursAt(s, w2, j)
       /\ LET k == RunEnd(s, j + Len(w2), {" "}) + 1 IN OccursAt(s, w3, k)

WordsSpaced(s, w1, w2, w3) == \E i \in 1..Len(s) : WordsSpacedAt(s, w1, w2, w3, i)

\* supplier_keywords of classify_transaction_remark
supplier_keywords == {<<"D","A","B","U","R">>, <<"L","I","M","I","T","E","D">>, <<"P","V","T"," ","L","T","D">>, <<"P","R","I","V","A","T","E"," ","L","I","M","I","T","E","D">>}

\* The cheque-number test of block 1 B of classify_transaction_remark
clg_number_rejected(description_upper, rejected_cheque_numbers) ==
  /\ rejected_cheque_numbers # {}
  /\ LET cheque_num == extract_cheque_number_from_clg(description_upper) IN
       cheque_num # <<>> /\ cheque_num \in rejected_cheque_numbers

\* The re-check inside block 4 B of classify_transaction_remark
supplier_recheck(description_upper) ==
  \/ StartsWith(description_upper, <<"C","M","S","/">>)
  \/ StartsWith(description_upper, <<"C","A","M","/">>)
  \/ StartsWith(description_upper, <<"A","C","H","/">>)
  \/ StartsWith(description_upper, <<"E","Z","Y","/">>)
  \/ Contains(description_upper, <<"U","P","I">>)
  \/ StartsWith(description_upper, <<"B","Y"," ","C","A","S","H">>)
  \/ Contains(description_upper, <<"G","I","B">>)
  \/ Contains(description_upper, <<"B","I","L","/","O","N","L">>)

\* A plausible slip: the Expense block placed before the Collections block
classify_expense_first(description, payment_category, rejected_cheque_numbers) ==
  LET d == normalize_narration(description)
      c == normalize_narration(payment_category)
  IN IF d = <<>> THEN "NA"
     ELSE IF Contains(d, <<"R","E","J","E","C","T">>) \/ Contains(c, <<"R","E","J","E","C","T">>) THEN "Cheque Reject"
     ELSE IF clg_number_rejected(d, rejected_cheque_numbers) THEN "Cheque Reject"
     ELSE IF Contains(d, <<"G","I","B">>) THEN "Expense"
     ELSE IF StartsWith(d, <<"A","C","H","/">>) THEN "Expense"
     ELSE IF Contains(d, <<"B","I","L","/","O","N","L">>) \/ (Contains(d, <<"B","I","L">>) /\ Contains(d, <<"O","N","L">>))
       THEN "Expense"
     ELSE IF StartsWith(d, <<"E","Z","Y","/">>) THEN "Expense"
     ELSE IF \/ WordsSpaced(d, <<"C","H","Q">>, <<"R","T","N">>, <<"C","H","G">>)
             \/ WordsSpaced(d, <<"C","H","Q">>, <<"R","E","T","U","R","N">>, <<"C","H","G">>)
             \/ WordsSpaced(d, <<"C","H","E","Q","U","E">>, <<"R","E","T","U","R","N">>, <<"C","H","G">>) THEN "Expense"
     ELSE IF Contains(d, <<"U","P","I">>) \/ Contains(c, <<"U","P","I">>) THEN "Collections"
     ELSE IF StartsWith(d, <<"B","Y"," ","C","A","S","H">>) THEN "Collections"
     ELSE IF StartsWith(d, <<"C","A","M","/">>) /\ Contains(d, <<"C","A","S","H"," ","D","E","P">>) THEN "Collections"
     ELSE IF StartsWith(d, <<"C","M","S","/">>) THEN "Collections"
     ELSE IF Contains(d, <<"D","D","/","C","C"," ","I","S","S","U","E","D">>) \/ Contains(d, <<"D","D"," ","I","S","S","U","E","D">>)
       THEN "Supplier Payment"
     ELSE IF ContainsAny(d, supplier_keywords) /\ ~supplier_recheck(d)
       THEN "Supplier Payment"
     ELSE "NA"

\* classify_transaction_remark: one IF per "if ...: return" of the source, in
\* the order of the source
classify_transaction_remark(description, payment_category, rejected_cheque_numbers) ==
  LET description_upper == normalize_narration(description)
      payment_category_upper == normalize_narration(payment_category)
  IN IF description_upper = <<>> THEN "NA"
     \* 1 A, 1 B
     ELSE IF \/ Contains(description_upper, <<"R","E","J","E","C","T">>)
             \/ Contains(payment_category_upper, <<"R","E","J","E","C","T">>) THEN "Cheque Reject"
     ELSE IF clg_number_rejected(description_upper, rejected_cheque_numbers)
       THEN "Cheque Reject"
     \* 2 A .. 2 D
     ELSE IF \/ Contains(description_upper, <<"U","P","I">>)
             \/ Contains(payment_category_upper, <<"U","P","I">>) THEN "Collections"
     ELSE IF StartsWith(description_upper, <<"B","Y"," ","C","A","S","H">>) THEN "Collections"
     ELSE IF /\ StartsWith(description_upper, <<"C","A","M","/">>)
             /\ Contains(description_upper, <<"C","A","S","H"," ","D","E","P">>) THEN "Collections"
     ELSE IF StartsWith(description_upper, <<"C","M","S","/">>) THEN "Collections"
     \* 3 A .. 3 E
     ELSE IF Contains(description_upper, <<"G","I","B">>) THEN "Expense"
     ELSE IF StartsWith(description_upper, <<"A","C","H","/">>) THEN "Expense"
     ELSE IF \/ Contains(description_upper, <<"B","I","L","/","O","N","L">>)
             \/ (Contains(description_upper, <<"B","I","L">>) /\ Contains(description_upper, <<"O","N","L">>))
       THEN "Expense"
     ELSE IF StartsWith(description_upper, <<"E","Z","Y","/">>) THEN "Expense"
     ELSE IF \/ WordsSpaced(description_upper, <<"C","H","Q">>, <<"R","T","N">>, <<"C","H","G">>)
             \/ WordsSpaced(description_upper, <<"C","H","Q">>, <<"R","E","T","U","R","N">>, <<"C","H","G">>)
             \/ WordsSpaced(description_upper, <<"C","H","E","Q","U","E">>, <<"R","E","T","U","R","N">>, <<"C","H","G">>)
       THEN "Expense"
     \* 4 A, 4 B
     ELSE IF \/ Contains(description_upper, <<"D","D","/","C","C"," ","I","S","S","U","E","D">>)
             \/ Contains(description_upper, <<"D","D"," ","I","S","S","U","E","D">>) THEN "Supplier Payment"
     ELSE IF /\ ContainsAny(description_upper, supplier_keywords)
             /\ ~supplier_recheck(description_upper) THEN "Supplier Payment"
     \* 5
     ELSE "NA"

\* ------------------------------------------------------ amounts, direction

\* A missing cell (the float nan pandas gives an empty cell): not a text
NaN == <<"NaN">>

\* pd.isna
IsNa(v) == v = NaN

\* str(v): a missing cell prints as "nan"
Str(v) == IF IsNa(v) THEN <<"n","a","n">> ELSE v

\* A plausible slip: the text left is returned even when nothing is left
clean_amount_without_default(amount_str) ==
  IF IsNa(amount_str) \/ Strip(amount_str) = <<>> THEN <<"0">>
  ELSE KeepChars(amount_str, Digits \cup {"."})

\* clean_amount: the digits and '.' of the text, "0" when blank or nothing is left
clean_amount(amount_str) ==
  IF IsNa(amount_str) \/ Strip(amount_str) = <<>> THEN <<"0">>
  ELSE LET cleaned == KeepChars(amount_str, Digits \cup {"."}) IN
    IF cleaned # <<>> THEN cleaned ELSE <<"0">>

\* The texts determine_debit_credit takes for "no amount"
ZeroTexts == {<<>>, <<"0">>, <<"0",".","0">>}

\* determine_debit_credit: the cleaned texts are compared with "", "0" and "0.0"
determine_debit_credit(withdrawal_amt, deposit_amt) ==
  LET withdrawal_clean == clean_amount(withdrawal_amt)
      deposit_clean == clean_amount(deposit_amt)
  IN IF deposit_clean # <<>> /\ deposit_clean \notin ZeroTexts THEN "Credit"
     ELSE IF withdrawal_clean # <<>> /\ withdrawal_clean \notin ZeroTexts THEN "Debit"
     ELSE ""

\* determine_debit_credit_from_cr_dr
determine_debit_credit_from_cr_dr(cr_dr) ==
  IF IsNa(cr_dr) THEN ""
  ELSE LET cr_dr_clean == Upper(Strip(Str(cr_dr))) IN
    IF cr_dr_clean = <<"C","R">> THEN "Credit"
    ELSE IF cr_dr_clean = <<"D","R">> THEN "Debit"
    ELSE ""

\* The number a cleaned amount text denotes is zero: it has no digit 1..9
\* (the texts "0", "0.0", "0.00", "00", ".0" all denote zero)
IsNumericZero(amount) == \A i \in 1..Len(amount) : amount[i] \in {"0", "."}

\* ------------------------------------------------------------ party names

\* str.replace(a, b): the occurrences of a, left to right, without overlap
RECURSIVE Replace(_, _, _)
Replace(s, a, b) ==
  IF s = <<>> THEN <<>>
  ELSE IF OccursAt(s, a, 1) THEN b \o Replace(SubSeq(s, Len(a) + 1, Len(s)), a, b)
  ELSE <<s[1]>> \o Replace(Tail(s), a, b)

\* re.sub(r'c+', 'c', s) for one character c
RECURSIVE CollapseRuns(_, _)
CollapseRuns(s, c) ==
  IF Len(s) < 2 THEN s
  ELSE IF s[1] = c /\ s[2] = c THEN CollapseRuns(Tail(s), c)
  ELSE <<s[1]>> \o CollapseRuns(Tail(s), c)

\* [part.strip() for part in parts if part.strip()]
RECURSIVE StripParts(_)
StripParts(parts) ==
  IF parts = <<>> THEN <<>>
  ELSE IF Strip(parts[1]) = <<>> THEN StripParts(Tail(parts))
  ELSE <<Strip(parts[1])>> \o StripParts(Tail(parts))

\* split_transaction_description
split_transaction_description(description) ==
  IF IsNa(description) \/ Strip(description) = <<>> THEN <<>>
  ELSE LET c1 == Replace(Strip(description), <<"-">>, <<"/">>)
           c2 == Replace(Replace(c1, <<" ","/">>, <<"/">>), <<"/"," ">>, <<"/">>)
           c3 == CollapseRuns(c2, "/")
       IN StripParts(Split(c3, "/"))

\* BANK_KEYWORDS of config/constants.py
BANK_KEYWORDS ==
  {<<"I","C","I","C","I">>, <<"A","X","I","S">>, <<"C","A","N","A","R","A">>, <<"S","B","I">>, <<"H","D","F","C">>, <<"Y","E","S">>, <<"B","A","N","K">>, <<"I","N","D","I","A","N">>, <<"P","U","N","J","A","B"," ","N","A","T">>,
   <<"B","A","N","D","H","A","N"," ","B","A">>, <<"B","A","R","O","D","A">>, <<"B","A","R","O","D","A"," ","U",".","P">>, <<"K","O","T","A","K">>, <<"J","A","M","M","U">>, <<"J","A","M","M","U"," ","A","N","D">>, <<"J","A","M","M","U"," ","&">>,
   <<"U","N","I","O","N">>, <<"U","C","O","B","A","N","K">>, <<"B","A","N","K","O","F","B","A">>}

\* any(bank in part.upper() for bank in BANK_KEYWORDS)
has_bank_keyword(part) == ContainsAny(Upper(part), BANK_KEYWORDS)

\* The transaction types is_valid_party_name refuses
TRANSACTION_TYPES ==
  {<<"M","M","T">>, <<"I","M","P","S">>, <<"N","E","F","T">>, <<"R","T","G","S">>, <<"C","M","S">>, <<"T","R","F">>, <<"C","L","G">>, <<"I","N","F">>, <<"I","N","F","T">>}

\* months of is_valid_party_name
MONTHS ==
  {<<"J","A","N","U","A","R","Y">>, <<"F","E","B","R","U","A","R","Y">>, <<"M","A","R","C","H">>, <<"A","P","R","I","L">>, <<"M","A","Y">>, <<"J","U","N","E">>, <<"J","U","L","Y">>, <<"A","U","G","U","S","T">>,
   <<"S","E","P","T","E","M","B","E","R">>, <<"O","C","T","O","B","E","R">>, <<"N","O","V","E","M","B","E","R">>, <<"D","E","C","E","M","B","E","R">>, <<"J","A","N">>, <<"F","E","B">>, <<"M","A","R">>, <<"A","P","R">>,
   <<"J","U","N">>, <<"J","U","L">>, <<"A","U","G">>, <<"S","E","P">>, <<"O","C","T">>, <<"N","O","V">>, <<"D","E","C">>}

\* unwanted_terms of is_valid_party_name
UNWANTED_TERMS ==
  {<<"A","T","T","N">>, <<"P","A","Y","M","E","N","T">>, <<"P","A","Y">>, <<"F">>, <<"H">>, <<"H","D","F","C">>, <<"I","C","I","C","I">>, <<"S","B","I">>, <<"A","X","I","S">>, <<"Y","E","S">>, <<"B","A","N","K">>,
   <<"B","A","N","Q","U","E">>, <<"B","U","L","D">>, <<"H","D","F","C"," ","B","A","N","K">>, <<"K","O","T","A","K"," ","M","A","H","I","N","D","R","A"," ","B","A","N","K">>, <<"M","A","H","I","N","D","R","A"," ","B","A","N","K">>}

AllIn(s, class) == \A i \in 1..Len(s) : s[i] \in class

\* ^\d+$
IsAllDigits(s) == s # <<>> /\ AllIn(s, Digits)

\* ^[A-Z]{lo,hi}\d+[A-Z]*\d*$ : the longest runs decide, the classes being disjoint
MatchCodeShape(s, lo, hi) ==
  LET a == RunEnd(s, 1, UpperLetters)
      b == RunEnd(s, a + 1, Digits)
      c == RunEnd(s, b + 1, UpperLetters)
      d == RunEnd(s, c + 1, Digits)
  IN a >= lo /\ a <= hi /\ b >= a + 1 /\ d = Len(s)

\* ^[A-Z]+\d+[A-Z]*$
MatchLettersDigitsLetters(s) ==
  LET a == RunEnd(s, 1, UpperLetters)
      b == RunEnd(s, a + 1, Digits)
      c == RunEnd(s, b + 1, UpperLetters)
  IN a >= 1 /\ b >= a + 1 /\ c = Len(s)

\* ^[A-Z]{4}\d+$
MatchFourLettersDigits(s) ==
  LET a == RunEnd(s, 1, UpperLetters)
      b == RunEnd(s, a + 1, Digits)
  IN a = 4 /\ b >= a + 1 /\ b = Len(s)

\* ^\d{1,2}\s+[A-Z]{3,9}$ with re.IGNORECASE, followed by \s* when trailing holds
MatchDayMonth(s, trailing) ==
  LET a == RunEnd(s, 1, Digits)
      b == RunEnd(s, a + 1, {" "})
      c == RunEnd(s, b + 1, Letters)
      d == IF trailing THEN RunEnd(s, c + 1, {" "}) ELSE c
  IN a >= 1 /\ a <= 2 /\ b >= a + 1 /\ c - b >= 3 /\ c - b <= 9 /\ d = Len(s)

\* A plausible slip: the transaction types compared with the name as written
is_valid_party_name_as_written(name) ==
  IF IsNa(name) \/ Strip(name) = <<>> THEN FALSE
  ELSE IF Strip(name) \in TRANSACTION_TYPES THEN FALSE
  ELSE IF Len(name) <= 3 THEN FALSE
  ELSE IF IsAllDigits(name) THEN FALSE
  ELSE (\E i \in 1..Len(name) : IsAlpha(name[i])) /\ Len(name) >= 4

\* is_valid_party_name
is_valid_party_name(name) ==
  IF IsNa(name) \/ Strip(name) = <<>> THEN FALSE
  ELSE LET name_upper == Strip(Upper(name)) IN
    IF name_upper \in TRANSACTION_TYPES THEN FALSE
    ELSE IF Len(name) <= 3 THEN FALSE
    ELSE IF IsAllDigits(name) THEN FALSE
    ELSE IF \/ MatchFourLettersDigits(name)
            \/ MatchCodeShape(name, 3, 4)
            \/ MatchLettersDigitsLetters(name) THEN FALSE
    ELSE IF MatchDayMonth(name, TRUE) THEN FALSE
    ELSE IF name_upper \in MONTHS THEN FALSE
    ELSE IF name_upper \in UNWANTED_TERMS THEN FALSE
    ELSE (\E i \in 1..Len(name) : IsAlpha(name[i])) /\ Len(name) >= 4

\* The start of the longest run of characters of the class that ends at i
\* (i + 1 when s[i] is not in the class)
RECURSIVE RunStart(_, _, _)
RunStart(s, i, class) ==
  IF i >= 1 /\ s[i] \in class THEN RunStart(s, i - 1, class) ELSE i + 1

\* The text without the characters at the given positions
RECURSIVE DropAt(_, _, _)
DropAt(s, drop, i) ==
  IF i > Len(s) THEN <<>>
  ELSE IF i \in drop THEN DropAt(s, drop, i + 1)
  ELSE <<s[i]>> \o DropAt(s, drop, i + 1)

WordChars == Letters \cup Digits

\* The positions where \b holds before a word character
WordStarts(s) ==
  {i \in 1..Len(s) : s[i] \in WordChars /\ (i = 1 \/ s[i - 1] \notin WordChars)}

WordEnd(s, i) == RunEnd(s, i, WordChars)

\* re.sub(r'\s+[A-Z]$', '', s)
strip_trailing_letter(s) ==
  LET n == Len(s) IN
    IF n >= 2 /\ s[n] \in UpperLetters /\ IsSpace(s[n - 1])
    THEN SubSeq(s, 1, RunStart(s, n - 1, {" "}) - 1)
    ELSE s

\* re.sub(r'/[A-Z]$', '', s)
strip_trailing_slash_letter(s) ==
  LET n == Len(s) IN
    IF n >= 2 /\ s[n] \in UpperLetters /\ s[n - 1] = "/" THEN SubSeq(s, 1, n - 2) ELSE s

\* re.sub(r'\s*\d+$', '', s): the last digit run and the white space before it
strip_trailing_digits(s) ==
  LET n == Len(s) IN
    IF n >= 1 /\ IsDigit(s[n])
    THEN SubSeq(s, 1, RunStart(s, RunStart(s, n, Digits) - 1, {" "}) - 1)
    ELSE s

\* re.sub(r'\b[A-Z]{3,4}\d+[A-Z]*\d*\b', '', s): a match is a whole word
strip_bank_codes(s) ==
  LET hit == {b \in WordStarts(s) : MatchCodeShape(SubSeq(s, b, WordEnd(s, b)), 3, 4)}
  IN DropAt(s, UNION {b..WordEnd(s, b) : b \in hit}, 1)

\* re.sub(r'\b[A-Z]+\d+[A-Z]*\b', '', s)
strip_reference_codes(s) ==
  LET hit == {b \in WordStarts(s) : MatchLettersDigitsLetters(SubSeq(s, b, WordEnd(s, b)))}
  IN DropAt(s, UNION {b..WordEnd(s, b) : b \in hit}, 1)

\* The end of a match of \b\d{1,2}\s+[A-Z]{3,9}\b (re.IGNORECASE) that starts at b,
\* 0 when there is none
DateEnd(s, b) ==
  LET e1 == WordEnd(s, b)
      e2 == RunEnd(s, e1 + 1, {" "})
      e3 == WordEnd(s, e2 + 1)
  IN IF /\ AllIn(SubSeq(s, b, e1), Digits) /\ e1 - b + 1 <= 2
        /\ e2 >= e1 + 1
        /\ e3 >= e2 + 3 /\ e3 <= e2 + 9 /\ AllIn(SubSeq(s, e2 + 1, e3), Letters)
     THEN e3 ELSE 0

\* re.sub(r'\b\d{1,2}\s+[A-Z]{3,9}\b', '', s, flags=re.IGNORECASE)
strip_dates(s) ==
  LET hit == {b \in WordStarts(s) : DateEnd(s, b) # 0}
  IN DropAt(s, UNION {b..DateEnd(s, b) : b \in hit}, 1)

\* re.sub(r'\b' + bank + r'\b', '', s, flags=re.IGNORECASE)
strip_word(s, bank) ==
  LET u == Upper(s)
      n == Len(bank)
      hit == {i \in 1..Len(s) :
                /\ OccursAt(u, bank, i)
                /\ (i = 1 \/ s[i - 1] \notin WordChars)
                /\ (i + n > Len(s) \/ s[i + n] \notin WordChars)}
  IN DropAt(s, UNION {i..(i + n - 1) : i \in hit}, 1)

\* bank_names of clean_party_name, in the order of the loop
bank_names ==
  <<<<"H","D","F","C">>, <<"I","C","I","C","I">>, <<"S","B","I">>, <<"A","X","I","S">>, <<"Y","E","S">>, <<"B","A","N","K">>, <<"B","A","N","Q","U","E">>, <<"A","T","T","N">>, <<"P","A","Y","M","E","N","T">>, <<"P","A","Y">>,
    <<"B","U","L","D">>, <<"K","O","T","A","K">>, <<"M","A","H","I","N","D","R","A">>, <<"H","D","F","C"," ","B","A","N","K">>, <<"K","O","T","A","K"," ","M","A","H","I","N","D","R","A"," ","B","A","N","K">>, <<"M","A","H","I","N","D","R","A"," ","B","A","N","K">>>>

\* for bank in bank_names: cleaned = re.sub(...)
RECURSIVE strip_words(_, _)
strip_words(s, names) ==
  IF names = <<>> THEN s ELSE strip_words(strip_word(s, Head(names)), Tail(names))

\* re.sub(r'^[/\s]+|[/\s]+$', '', s)
strip_slashes(s) ==
  LET b == RunEnd(s, 1, {"/", " "}) + 1
      e == RunStart(s, Len(s), {"/", " "}) - 1
  IN IF b > e THEN <<>> ELSE SubSeq(s, b, e)

\* The final check of clean_party_name
too_poor_a_name(cleaned) ==
  \/ cleaned = <<>>
  \/ Len(cleaned) <= 3
  \/ Upper(cleaned) \in {<<"A","T","T","N">>, <<"P","A","Y","M","E","N","T">>, <<"P","A","Y">>, <<"F">>, <<"H">>, <<"B","U","L","D">>}
  \/ ~(\E i \in 1..Len(cleaned) : IsAlpha(cleaned[i]))
  \/ MatchDayMonth(cleaned, FALSE)

\* clean_party_name: the substitutions in the order of the source
clean_party_name(name) ==
  IF IsNa(name) \/ Strip(name) = <<>> THEN <<>>
  ELSE LET c1 == strip_trailing_slash_letter(strip_trailing_letter(Strip(name)))
           c2 == strip_trailing_digits(c1)
           c3 == strip_reference_codes(strip_bank_codes(c2))
           c4 == strip_dates(c3)
           c5 == strip_words(c4, bank_names)
           c6 == Strip(CollapseRuns(c5, " "))
           cleaned == strip_slashes(c6)
       IN IF too_poor_a_name(cleaned) THEN <<>> ELSE cleaned

\* ------------------------------------------------- helpers of the parsers

Min(a, b) == IF a <= b THEN a ELSE b

\* str.isdigit
IsDigitText(s) == s # <<>> /\ AllIn(s, Digits)

\* str.isalnum
IsAlnumText(s) == s # <<>> /\ AllIn(s, Letters \cup Digits)

\* any(c.isalpha() for c in s), re.search(r'[A-Za-z]', s)
HasAlpha(s) == \E i \in 1..Len(s) : IsAlpha(s[i])

\* str.split(): the words between runs of white space
Words(s) == StripParts(Split(s, " "))

\* [p.strip() for p in parts]
StripEach(parts) == [i \in 1..Len(parts) |-> Strip(parts[i])]

\* is_valid_party_name(part) and not any(bank in part.upper() for bank in BANK_KEYWORDS)
party_ok(part) == is_valid_party_name(part) /\ ~has_bank_keyword(part)

\* The first of parts[first..last] that passes the test, "" when none does:
\* for i in range(...): if test(parts[i]): return parts[i]
FirstPart(parts, first, last, Ok(_)) ==
  LET hits == {i \in first..Min(last, Len(parts)) : Ok(parts[i])}
  IN IF hits = {} THEN <<>> ELSE parts[CHOOSE i \in hits : \A k \in hits : i <= k]

\* The first ' '.join(parts[i..j]) that passes the test, "" when none does:
\*   for i in range(first, last + 1): for j in range(i + 1, min(jlast, i + reach) + 1)
\* (positions counted from 1)
FirstCombined(parts, first, last, jlast, reach, Ok(_)) ==
  LET hits == {p \in (first..Min(last, Len(parts))) \X (1..Len(parts)) :
                 /\ p[2] >= p[1] + 1
                 /\ p[2] <= Min(jlast, p[1] + reach)
                 /\ Ok(JoinSpace(SubSeq(parts, p[1], p[2])))}
  IN IF hits = {} THEN <<>>
     ELSE LET b == CHOOSE p \in hits :
                     \A q \in hits : p[1] < q[1] \/ (p[1] = q[1] /\ p[2] <= q[2])
          IN JoinSpace(SubSeq(parts, b[1], b[2]))

\* pd.Series(["", "", ""])
NoParse == << <<>>, <<>>, <<>> >>

\* PAYMENT_CATEGORY_MAP.get(txn_type, txn_type)
get_payment_category(txn_type) ==
  CASE txn_type = <<"C","L","G">> -> <<"C","H","E","Q","U","E"," ","C","L","E","A","R","I","N","G">>
    [] txn_type = <<"C","A","S","H">> -> <<"C","A","S","H"," ","D","E","P","O","S","I","T">>
    [] txn_type = <<"I","N","F">> -> <<"I","N","F"," ","T","R","A","N","S","A","C","T","I","O","N">>
    [] txn_type = <<"I","N","F","T">> -> <<"I","N","F"," ","T","R","A","N","S","A","C","T","I","O","N">>
    [] txn_type = <<"T","R","F">> -> <<"T","R","A","N","S","F","E","R">>
    [] txn_type = <<"M","M","T">> -> <<"M","O","B","I","L","E"," ","M","O","N","E","Y"," ","T","R","A","N","S","F","E","R">>
    [] txn_type = <<"N","E","F","T">> -> <<"N","E","F","T">>
    [] txn_type = <<"R","T","G","S">> -> <<"R","T","G","S">>
    [] txn_type = <<"I","M","P","S">> -> <<"I","M","P","S">>
    [] txn_type = <<"I","F","T">> -> <<"I","N","S","T","A","N","T"," ","F","U","N","D"," ","T","R","A","N","S","F","E","R">>
    [] txn_type = <<"I","N","B","/","I","F","T">> -> <<"I","N","S","T","A","N","T"," ","F","U","N","D"," ","T","R","A","N","S","F","E","R">>
    [] txn_type = <<"I","N","B","/","R","T","G","S">> -> <<"R","T","G","S">>
    [] OTHER -> txn_type

\* A plausible slip: the cash correction made for the Credit rows only
cash_correction_credit_only(payment_category, debit_credit) ==
  IF Contains(Upper(payment_category), <<"C","A","S","H">>) /\ debit_credit = "Credit"
  THEN <<"C","A","S","H"," ","D","E","P","O","S","I","T">>
  ELSE payment_category

\* The cash correction: a category that contains CASH follows the direction
cash_correction(payment_category, debit_credit) ==
  IF Contains(Upper(payment_category), <<"C","A","S","H">>)
  THEN IF debit_credit = "Credit" THEN <<"C","A","S","H"," ","D","E","P","O","S","I","T">>
       ELSE IF debit_credit = "Debit" THEN <<"C","A","S","H"," ","W","I","T","H","D","R","A","W","A","L">>
       ELSE payment_category
  ELSE payment_category

\* ------------------------------------------------------------ ICICI parser

\* is_reference_code of _parse_inf_transaction
icici_is_reference_code(part) ==
  LET part_clean == Strip(part) IN
    \/ IsDigitText(part_clean)
    \/ (Len(part_clean) > 15 /\ IsAlnumText(part_clean))
    \/ Len(part_clean) <= 3

\* a part of an INF narration that can be a party name
icici_inf_candidate(part) ==
  Strip(part) # <<>> /\ ~icici_is_reference_code(Strip(part)) /\ party_ok(Strip(part))

\* the parts of an INF narration that are no reference codes
icici_inf_not_reference(part) ==
  Strip(part) # <<>> /\ ~icici_is_reference_code(Strip(part))

\* The backward collection of _parse_inf_transaction: from the end down to the
\* third part, stopped by the first reference code
RECURSIVE icici_inf_collect(_, _)
icici_inf_collect(parts, i) ==
  IF i < 3 THEN <<>>
  ELSE LET part == Strip(parts[i]) IN
    IF part = <<>> THEN icici_inf_collect(parts, i - 1)
    ELSE IF icici_is_reference_code(part) THEN <<>>
    ELSE IF party_ok(part) \/ (Len(part) >= 4 /\ ~IsDigitText(part) /\ HasAlpha(part))
         THEN Append(icici_inf_collect(parts, i - 1), part)
    ELSE icici_inf_collect(parts, i - 1)

\* _parse_inf_transaction, the branch INF/NEFT/REFERENCE/BANKCODE/PARTYNAME
icici_parse_inf_typed(parts) ==
  LET single == Strip(FirstPart(parts, 4, Len(parts), icici_inf_candidate))
      party_parts == StripEach(SelectSeq(SubSeq(parts, 4, Len(parts)), icici_inf_not_reference))
      combined == FirstCombined(party_parts, 1, Len(party_parts), Len(party_parts), 2, party_ok)
  IN IF single # <<>> THEN single
     ELSE IF Len(parts) >= 4 /\ party_parts # <<>> THEN combined
     ELSE <<>>

\* _parse_inf_transaction, the branch INF/INFT/REFERENCE1/REFERENCE2/PARTY_NAME
icici_parse_inf_plain(parts) ==
  LET party_parts == icici_inf_collect(parts, Len(parts))
      last_part == party_parts[Len(party_parts)]
      all_parts == JoinSpace(party_parts)
      forward == Strip(FirstPart(parts, 3, Len(parts), icici_inf_candidate))
      valid_parts == StripEach(SelectSeq(SubSeq(parts, 3, Len(parts)), icici_inf_not_reference))
      combined == FirstCombined(valid_parts, 1, Len(valid_parts), Len(valid_parts), 2, party_ok)
  IN IF party_parts # <<>> /\ party_ok(last_part) THEN last_part
     ELSE IF party_parts # <<>> /\ party_ok(all_parts) THEN all_parts
     ELSE IF party_parts # <<>> /\ Len(all_parts) >= 4 THEN all_parts
     ELSE IF forward # <<>> THEN forward
     ELSE IF Len(parts) >= 3 /\ valid_parts # <<>>
          THEN IF combined # <<>> THEN combined
               ELSE IF Len(valid_parts[Len(valid_parts)]) >= 4
                    THEN valid_parts[Len(valid_parts)]
               ELSE <<>>
     ELSE <<>>

\* _parse_inf_transaction
icici_parse_inf_transaction(parts) ==
  IF Len(parts) >= 2 /\ parts[2] \in {<<"N","E","F","T">>, <<"R","T","G","S">>, <<"I","M","P","S">>}
  THEN icici_parse_inf_typed(parts)
  ELSE icici_parse_inf_plain(parts)

\* _parse_trf_transaction
icici_parse_trf_transaction(parts) ==
  LET single == FirstPart(parts, 2, Len(parts), party_ok) IN
    IF single # <<>> THEN single
    ELSE IF Len(parts) >= 2
         THEN FirstCombined(parts, 2, Min(Len(parts), 4), Len(parts), 2, party_ok)
    ELSE <<>>

\* all(len(word) >= 2 and any(c.isalpha() for c in word) for word in words)
icici_clg_words_ok(party_name) ==
  LET words == Words(party_name) IN
    \A k \in 1..Len(words) : Len(words[k]) >= 2 /\ HasAlpha(words[k])

\* _parse_clg_transaction
icici_parse_clg_transaction(parts) ==
  IF Len(parts) < 2 THEN <<>>
  ELSE LET party_name == Strip(parts[2])
           next_part == Strip(parts[3])
           combined == party_name \o <<" ">> \o next_part
       IN IF party_ok(party_name) THEN party_name
          ELSE IF /\ Len(party_name) >= 3
                  /\ ~IsDigitText(party_name) /\ Len(party_name) > 3
                  /\ (IF Contains(party_name, <<" ">>) THEN icici_clg_words_ok(party_name) ELSE TRUE)
                  /\ ~has_bank_keyword(party_name)
               THEN party_name
          ELSE IF /\ Len(parts) >= 3
                  /\ ~(IsDigitText(next_part) \/ (Len(next_part) <= 3 /\ IsAlnumText(next_part)))
                  /\ party_ok(combined)
               THEN combined
          ELSE <<>>

\* _parse_cash_transaction
icici_parse_cash_transaction(parts) == FirstPart(parts, 2, Len(parts), party_ok)

\* _parse_mmt_transaction
icici_parse_mmt_transaction(parts, description) ==
  LET imps_parts == split_transaction_description(description)
      imps_single == FirstPart(imps_parts, 1, Len(imps_parts), party_ok)
      imps_combined ==
        FirstCombined(imps_parts, 1, Len(imps_parts), Len(imps_parts), 2, party_ok)
      single == FirstPart(parts, 3, Len(parts), party_ok)
  IN IF Contains(Upper(description), <<"I","M","P","S">>) /\ imps_single # <<>> THEN imps_single
     ELSE IF Contains(Upper(description), <<"I","M","P","S">>) /\ imps_combined # <<>> THEN imps_combined
     ELSE IF single # <<>> THEN single
     ELSE IF Len(parts) >= 3
          THEN FirstCombined(parts, 3, Min(Len(parts), 5), Len(parts), 2, party_ok)
     ELSE <<>>

\* A plausible slip: the last part that passes is taken, not the first
icici_parse_standard_last(parts) ==
  LET hits == {i \in 2..Len(parts) : party_ok(parts[i])} IN
    IF hits = {} THEN <<>> ELSE parts[CHOOSE i \in hits : \A k \in hits : i >= k]

\* _parse_standard_transaction
icici_parse_standard_transaction(parts) ==
  LET single == FirstPart(parts, 2, Len(parts), party_ok) IN
    IF single # <<>> THEN single
    ELSE IF Len(parts) >= 3
         THEN FirstCombined(parts, 2, Min(Len(parts), 5), Len(parts), 2, party_ok)
    ELSE <<>>

\* looks_like_reference_code of parse_transaction_description
looks_like_reference_code(name) ==
  \/ name = <<>>
  \/ Len(name) < 3
  \/ LET name_clean == Strip(name)
         special == {i \in 1..Len(name_clean) :
                       ~IsAlnum(name_clean[i]) /\ name_clean[i] # " "}
     IN \/ IsDigitText(name_clean)
        \/ (Len(name_clean) > 15 /\ IsAlnumText(name_clean))
        \/ Len(name_clean) <= 3
        \/ 10 * Cardinality(special) > 3 * Len(name_clean)

\* a part the recovery of parse_transaction_description stops at
icici_recover_candidate(part) ==
  Strip(part) # <<>> /\ ~looks_like_reference_code(Strip(part)) /\ party_ok(Strip(part))

\* The recovery of parse_transaction_description: the last part, the first one
\* excluded, that can be a party name
icici_recover_part(parts) ==
  LET hits == {i \in 2..Len(parts) : icici_recover_candidate(parts[i])}
  IN IF hits = {} THEN <<>> ELSE Strip(parts[CHOOSE i \in hits : \A k \in hits : i >= k])

\* "Ensure party2 is set if party1 is valid" and the converse
icici_mirror(party1, party2) ==
  IF party1 # <<>> /\ party2 = <<>> THEN <<party1, party1>>
  ELSE IF party2 # <<>> /\ party1 = <<>> THEN <<party2, party2>>
  ELSE <<party1, party2>>

\* The strategy parse_transaction_description picks by the transaction type
icici_extract_party(parts, description) ==
  LET txn_type == Upper(parts[1]) IN
    IF txn_type \in {<<"I","N","F">>, <<"I","N","F","T">>} THEN icici_parse_inf_transaction(parts)
    ELSE IF txn_type = <<"T","R","F">> THEN icici_parse_trf_transaction(parts)
    ELSE IF txn_type = <<"C","L","G">> THEN icici_parse_clg_transaction(parts)
    ELSE IF Contains(txn_type, <<"C","A","S","H">>) THEN icici_parse_cash_transaction(parts)
    ELSE IF txn_type = <<"M","M","T">> THEN icici_parse_mmt_transaction(parts, description)
    ELSE IF txn_type \in {<<"N","E","F","T">>, <<"R","T","G","S">>, <<"I","M","P","S">>, <<"C","M","S">>}
         THEN icici_parse_standard_transaction(parts)
    ELSE <<>>

\* The repair of parse_transaction_description: a cleaned name that looks like a
\* reference code gives way to the other name or to the recovered part; then
\* the names are mirrored
icici_repair(party1, party2, recovered) ==
  IF looks_like_reference_code(party1) \/ ~is_valid_party_name(party1)
  THEN IF party2 # <<>> /\ ~looks_like_reference_code(party2) /\ is_valid_party_name(party2)
       THEN icici_mirror(party2, party2)
       ELSE IF (party1 = <<>> \/ looks_like_reference_code(party1)) /\ recovered # <<>>
            THEN icici_mirror(recovered, IF party2 = <<>> THEN recovered ELSE party2)
       ELSE icici_mirror(party1, party2)
  ELSE icici_mirror(party1, party2)

\* party1 = clean_party_name(party1), party2 = clean_party_name(party2), repair
icici_clean_and_repair(party, recovered) ==
  icici_repair(clean_party_name(party), clean_party_name(party), recovered)

\* The party names of parse_transaction_description
icici_party_names(parts, description) ==
  icici_clean_and_repair(icici_extract_party(parts, description),
                         icici_recover_part(parts))

\* pd.Series([payment_category, party1, party2])
icici_series(payment_category, names) == <<payment_category, names[1], names[2]>>

\* A plausible slip: parse_transaction_description without its test for REJECT
icici_parse_without_reject(description) ==
  IF IsNa(description) \/ Strip(description) = <<>> THEN NoParse
  ELSE LET parts == split_transaction_description(description) IN
    IF parts = <<>> THEN NoParse
    ELSE icici_series(get_payment_category(Upper(parts[1])),
                      icici_party_names(parts, description))

\* ICICIParser.parse_transaction_description: <<category, party 1, party 2>>
icici_parse_transaction_description(description) ==
  IF IsNa(description) \/ Strip(description) = <<>> THEN NoParse
  ELSE LET parts == split_transaction_description(description) IN
    IF parts = <<>> THEN NoParse
    ELSE IF StartsWith(Upper(parts[1]), <<"R","E","J","E","C","T">>) THEN <<<<"R","E","J","E","C","T">>, <<>>, <<>>>>
    ELSE icici_series(get_payment_category(Upper(parts[1])),
                      icici_party_names(parts, description))

\* _get_withdrawal_deposit_monthly: <<withdrawal, deposit>>
icici_get_withdrawal_deposit_monthly(amount_cell, debit_credit) ==
  LET amount == clean_amount(Strip(Str(amount_cell))) IN
    IF debit_credit = "Debit" THEN <<amount, <<"0">>>>
    ELSE IF debit_credit = "Credit" THEN <<<<"0">>, amount>>
    ELSE <<<<"0">>, <<"0">>>>

\* ------------------------------------------------------------- AXIS parser

\* is_reference_code of AXISParser._extract_party_names
axis_is_reference_code(part) ==
  \/ Strip(part) = <<>>
  \/ LET part_clean == Strip(part) IN
       \/ IsDigitText(part_clean)
       \/ Len(part_clean) <= 3
       \/ (Len(part_clean) > 12 /\ IsAlnumText(part_clean))

\* re.match of a word, \s+ and a second word at the start of the text
MatchTwoWords(s, w1, w2) ==
  /\ StartsWith(s, w1)
  /\ LET e == RunEnd(s, Len(w1) + 1, {" "}) IN e >= Len(w1) + 1 /\ OccursAt(s, w2, e + 1)

\* ^[A-Z]+\s+BANK$
MatchWordThenBank(s) ==
  LET a == RunEnd(s, 1, UpperLetters)
      b == RunEnd(s, a + 1, {" "})
  IN a >= 1 /\ b >= a + 1 /\ SubSeq(s, b + 1, Len(s)) = <<"B","A","N","K">>

\* is_bank_name of AXISParser._extract_party_names
axis_is_bank_name(part) ==
  /\ part # <<>>
  /\ LET part_upper == Strip(Upper(part)) IN
       \/ \E bank_keyword \in BANK_KEYWORDS :
            Contains(part_upper, Upper(bank_keyword)) \/ Contains(Upper(bank_keyword), part_upper)
       \/ MatchTwoWords(part_upper, <<"S","T","A","T","E">>, <<"B","A","N","K">>)
       \/ MatchTwoWords(part_upper, <<"B","A","N","K">>, <<"O","F">>)
       \/ MatchWordThenBank(part_upper)
       \/ StartsWith(part_upper, <<"H","D","F","C">>)
       \/ StartsWith(part_upper, <<"I","C","I","C","I">>)
       \/ StartsWith(part_upper, <<"A","X","I","S">>)
       \/ StartsWith(part_upper, <<"S","B","I">>)
       \/ StartsWith(part_upper, <<"K","O","T","A","K">>)
       \/ MatchTwoWords(part_upper, <<"Y","E","S">>, <<"B","A","N","K">>)
       \/ MatchTwoWords(part_upper, <<"U","N","I","O","N">>, <<"B","A","N","K">>)
       \/ MatchTwoWords(part_upper, <<"C","A","N","A","R","A">>, <<"B","A","N","K">>)

\* a part of a CLG narration that is neither a reference code nor a bank name
axis_clg_keep(part) ==
  Strip(part) # <<>> /\ ~axis_is_reference_code(Strip(part)) /\ ~axis_is_bank_name(Strip(part))

\* the fallback of the CLG branch
axis_clg_fallback(part) ==
  axis_clg_keep(part) /\ Len(Strip(part)) >= 4 /\ HasAlpha(Strip(part))

\* _extract_party_names, txn_type CLG
axis_extract_clg(parts) ==
  LET party_parts == StripEach(SelectSeq(SubSeq(parts, 4, Len(parts)), axis_clg_keep))
      combined_all == JoinSpace(Words(JoinSpace(party_parts)))
  IN IF /\ party_parts # <<>>
        /\ Len(combined_all) >= 4 /\ HasAlpha(combined_all)
        /\ ~MatchCodeShape(combined_all, 3, 4)
     THEN combined_all
     ELSE IF Len(parts) >= 4 THEN Strip(FirstPart(parts, 4, Len(parts), axis_clg_fallback))
     ELSE <<>>

\* The loop of the MOB branch that joins the name with the next parts
RECURSIVE axis_mob_combine(_, _, _)
axis_mob_combine(parts, i, party_parts) ==
  IF i > Min(Len(parts), 5) THEN <<>>
  ELSE LET next_part == Strip(parts[i]) IN
    IF next_part # <<>> /\ ~axis_is_reference_code(next_part)
    THEN IF party_ok(JoinSpace(Append(party_parts, next_part)))
         THEN JoinSpace(Append(party_parts, next_part))
         ELSE axis_mob_combine(parts, i + 1, Append(party_parts, next_part))
    ELSE axis_mob_combine(parts, i + 1, party_parts)

\* _extract_party_names, txn_type MOB
axis_extract_mob(parts) ==
  IF Len(parts) < 3 THEN <<>>
  ELSE LET party_name == Strip(parts[3]) IN
    IF axis_is_reference_code(party_name) THEN <<>>
    ELSE IF party_ok(party_name) THEN party_name
    ELSE IF Len(party_name) >= 4 THEN party_name
    ELSE axis_mob_combine(parts, 4, <<party_name>>)

\* _extract_party_names, txn_type CASH
axis_extract_cash(parts) ==
  IF Len(parts) < 1 THEN <<>>
  ELSE LET potential_party == Strip(parts[Len(parts)]) IN
    IF potential_party # <<>> /\ ~axis_is_reference_code(potential_party) /\ party_ok(potential_party)
    THEN potential_party
    ELSE <<>>

\* a part of the other narrations that can be a party name
axis_other_candidate(part) ==
  Strip(part) # <<>> /\ ~axis_is_reference_code(Strip(part)) /\ party_ok(Strip(part))

axis_other_not_reference(part) == Strip(part) # <<>> /\ ~axis_is_reference_code(Strip(part))

\* _extract_party_names, the other transaction types
axis_extract_other(parts) ==
  LET skip_second == Len(parts) > 1 /\ Strip(Upper(parts[2])) \in {<<"T","P","F","T">>, <<"I","F","T">>, <<"R","T","G","S">>, <<"N","E","F","T">>, <<"I","M","P","S">>}
      first == IF skip_second THEN 3 ELSE 2
      single == Strip(FirstPart(parts, first, Len(parts), axis_other_candidate))
      valid_parts == StripEach(SelectSeq(SubSeq(parts, first, Len(parts)), axis_other_not_reference))
  IN IF single # <<>> THEN single
     ELSE IF Len(parts) >= 2 /\ valid_parts # <<>>
          THEN FirstCombined(valid_parts, 1, Min(Len(valid_parts), 5), Len(valid_parts), 2, party_ok)
     ELSE <<>>

\* AXISParser._extract_party_names
axis_extract_party_names(parts, txn_type) ==
  IF txn_type = <<"C","L","G">> THEN axis_extract_clg(parts)
  ELSE IF txn_type = <<"M","O","B">> THEN axis_extract_mob(parts)
  ELSE IF txn_type = <<"C","A","S","H">> THEN axis_extract_cash(parts)
  ELSE axis_extract_other(parts)

\* The detection of the payment category: <<txn_type, payment_category>>
axis_detect_category(parts, particulars_clean) ==
  LET first_part == IF Len(parts) > 0 THEN Upper(parts[1]) ELSE <<>>
      second == IF Len(parts) > 1 THEN Upper(parts[2]) ELSE <<>>
      upper == Upper(particulars_clean)
  IN IF Contains(first_part, <<"C","L","G">>) THEN <<<<"C","L","G">>, <<"C","H","E","Q","U","E"," ","C","L","E","A","R","I","N","G">>>>
     ELSE IF Contains(first_part, <<"M","O","B">>) \/ (Len(parts) > 1 /\ Contains(second, <<"T","P","F","T">>))
          THEN <<<<"M","O","B">>, <<"M","O","B","I","L","E"," ","T","R","A","N","S","F","E","R">>>>
     ELSE IF Contains(upper, <<"C","A","S","H">>)
          THEN IF Contains(upper, <<"W","I","T","H","D","R","A","W">>) \/ Contains(upper, <<"W","D">>)
               THEN <<<<"C","A","S","H">>, <<"C","A","S","H"," ","W","I","T","H","D","R","A","W","A","L">>>>
               ELSE <<<<"C","A","S","H">>, <<"C","A","S","H"," ","D","E","P","O","S","I","T">>>>
     ELSE IF Contains(first_part, <<"N","E","F","T">>) THEN <<<<"N","E","F","T">>, <<"N","E","F","T">>>>
     ELSE IF Contains(first_part, <<"T","R","F">>) THEN <<<<"T","R","F">>, <<"T","R","A","N","S","F","E","R">>>>
     ELSE IF Contains(first_part, <<"M","M","T">>) THEN <<<<"M","M","T">>, <<"M","O","B","I","L","E"," ","T","R","A","N","S","F","E","R">>>>
     ELSE IF Contains(first_part, <<"I","F","T">>) THEN <<<<"I","F","T">>, <<"I","N","S","T","A","N","T"," ","F","U","N","D"," ","T","R","A","N","S","F","E","R">>>>
     ELSE IF Contains(first_part, <<"R","T","G","S">>) THEN <<<<"R","T","G","S">>, <<"R","T","G","S">>>>
     ELSE IF Contains(first_part, <<"I","M","P","S">>) \/ (Len(parts) > 1 /\ Contains(second, <<"P","2","A">>))
          THEN <<<<"I","M","P","S">>, <<"I","M","P","S">>>>
     ELSE IF Contains(first_part, <<"I","N","B">>) /\ Len(parts) > 1 /\ Contains(second, <<"I","F","T">>)
          THEN <<<<"I","N","B","/","I","F","T">>, <<"I","N","S","T","A","N","T"," ","F","U","N","D"," ","T","R","A","N","S","F","E","R">>>>
     ELSE IF Contains(first_part, <<"I","N","B">>) /\ Len(parts) > 1 /\ Contains(second, <<"R","T","G","S">>)
          THEN <<<<"I","N","B","/","R","T","G","S">>, <<"R","T","G","S">>>>
     ELSE << <<>>, <<>> >>

\* The end of parse_transaction_description: a CLG name has its white space
\* normalised, any other name is cleaned
axis_clean(txn_type, found) ==
  IF txn_type = <<"C","L","G">>
  THEN (IF found # <<>> THEN Strip(JoinSpace(Words(found))) ELSE found)
  ELSE clean_party_name(found)

\* pd.Series([payment_category, party1, party2]) with party2 = party1
axis_series(payment_category, party) == <<payment_category, party, party>>

\* parse_transaction_description once the category is detected
axis_parse_detected(parts, detected) ==
  axis_series(detected[2],
              axis_clean(detected[1], axis_extract_party_names(parts, detected[1])))

\* AXISParser.parse_transaction_description: <<category, party 1, party 2>>
axis_parse_transaction_description(particulars) ==
  IF IsNa(particulars) \/ Strip(particulars) = <<>> THEN NoParse
  ELSE LET particulars_clean == Strip(particulars)
           parts == StripParts(Split(particulars_clean, "/"))
       IN axis_parse_detected(parts, axis_detect_category(parts, particulars_clean))

\* The amounts and the direction of AXISParser._process_row:
\* <<debit_credit, withdrawal_amt, deposit_amt>>. A sheet whose rows reach
\* _process_row has the columns of the bank's statement, in which the only column
\* whose name contains "debit" or "credit" is Debit/Credit itself.
axis_amounts(amount_cell, flag_cell) ==
  LET amount == clean_amount(Strip(Str(amount_cell)))
      debit_credit_col == Upper(Strip(Str(flag_cell)))
      withdraw_amt == clean_amount(Strip(Str(flag_cell)))
  IN IF Contains(debit_credit_col, <<"C","R">>) THEN <<"Credit", <<"0">>, amount>>
     ELSE IF Contains(debit_credit_col, <<"D","R">>) THEN <<"Debit", amount, <<"0">>>>
     ELSE IF withdraw_amt # <<>> /\ withdraw_amt # <<"0">> THEN <<"Debit", withdraw_amt, <<"0">>>>
     ELSE IF amount # <<>> /\ amount # <<"0">> THEN <<"Debit", amount, <<"0">>>>
     ELSE <<"", <<"0">>, <<"0">>>>

\* ------------------------------------------------------------- Jana parser

\* The part is not blank and can be a party name
jana_candidate(part) == Strip(part) # <<>> /\ party_ok(Strip(part))

\* Branch NEFT CR of parse_transaction_description: <<party 1, party 2>>
jana_parse_neft_cr(desc_clean) ==
  LET parts == Split(desc_clean, "-")
      n == Len(parts)
      potential_parties == StripEach(SelectSeq(SubSeq(parts, 3, n - 1), jana_candidate))
      combined == FirstCombined(StripEach(parts), 3, n - 1, n - 1, 2, party_ok)
  IN IF n < 3 THEN << <<>>, <<>> >>
     ELSE IF potential_parties # <<>>
          THEN <<potential_parties[1],
                 IF Len(potential_parties) > 1 THEN potential_parties[2]
                 ELSE potential_parties[1]>>
     ELSE <<combined, combined>>

\* Branch NEFT DR
jana_parse_neft_dr(desc_clean) ==
  LET parts == StripEach(Split(desc_clean, "-"))
      single == FirstPart(parts, 1, Len(parts), party_ok)
  IN IF single # <<>> THEN single
     ELSE IF Len(parts) >= 2
          THEN FirstCombined(parts, 1, Len(parts), Len(parts), 2, party_ok)
     ELSE <<>>

\* The words the IMPS loop stops at
jana_imps_stop(word) ==
  \/ Upper(word) \in {<<"P","A","Y","M","E","N","T">>, <<"A","G","A","I","N","S","T">>, <<"F","O","R">>, <<"T","O">>, <<"F","R","O","M">>, <<"R","E","F">>, <<"R","E","F","E","R","E","N","C","E">>, <<"I","D">>}
  \/ LET a == RunEnd(word, 1, Digits) IN a >= 1 /\ a + 1 <= Len(word) /\ word[a + 1] = "-"

\* potential_name_parts of the IMPS branch, from word i on
RECURSIVE jana_imps_collect(_, _)
jana_imps_collect(words, i) ==
  IF i > Len(words) THEN <<>>
  ELSE IF jana_imps_stop(words[i]) THEN <<>>
  ELSE IF ~IsDigitText(words[i]) /\ Len(words[i]) >= 2
       THEN <<words[i]>> \o jana_imps_collect(words, i + 1)
  ELSE jana_imps_collect(words, i + 1)

\* len(words_list) != len(set(words_list)) for the words of combined.upper()
has_duplicate(combined) ==
  LET words_list == Words(Upper(combined)) IN
    Len(words_list) # Cardinality({words_list[k] : k \in 1..Len(words_list)})

\* The names the IMPS branch scores, in the order it tries them:
\* the single words, then the joins of up to 6 consecutive words
jana_imps_scored(name_parts) ==
  LET n == Len(name_parts) IN
    {[rank |-> k, text |-> name_parts[k], score |-> Len(name_parts[k])] :
       k \in {k \in 1..n : party_ok(name_parts[k])}}
    \cup
    {[rank |-> n + (p[1] - 1) * n + p[2],
      text |-> JoinSpace(SubSeq(name_parts, p[1], p[2])),
      score |-> Len(JoinSpace(SubSeq(name_parts, p[1], p[2])))
                + (IF has_duplicate(JoinSpace(SubSeq(name_parts, p[1], p[2]))) THEN 0 ELSE 20)] :
       p \in {p \in (1..n) \X (1..n) :
                /\ p[2] >= p[1] + 1 /\ p[2] <= Min(n, p[1] + 5)
                /\ party_ok(JoinSpace(SubSeq(name_parts, p[1], p[2])))}}

\* Branch IMPS: the first name of the highest score
jana_parse_imps(desc_clean) ==
  LET words == Words(desc_clean)
      start_idx == IF Len(words) > 1 /\ IsDigitText(words[2]) THEN 3 ELSE 2
      scored == jana_imps_scored(jana_imps_collect(words, start_idx))
  IN IF Len(words) < 2 \/ scored = {} THEN <<>>
     ELSE (CHOOSE c \in scored :
             \A d \in scored :
               c.score > d.score \/ (c.score = d.score /\ c.rank <= d.rank)).text

\* Branch RTGS
jana_parse_rtgs(desc_clean) ==
  LET parts == split_transaction_description(desc_clean)
      single == FirstPart(parts, 2, Len(parts), party_ok)
  IN IF single # <<>> THEN single
     ELSE IF Len(parts) >= 2
          THEN FirstCombined(parts, 2, Min(Len(parts), 5), Len(parts), 2, party_ok)
     ELSE <<>>

\* Branch "jana ca to jana od", credit
jana_parse_internal_credit(desc_clean) ==
  LET parts == Split(desc_clean, "-")
      company_name == Strip(parts[Len(parts)])
  IN IF Len(parts) >= 3 /\ party_ok(company_name) THEN company_name
     ELSE <<"I","N","T","E","R","N","A","L"," ","T","R","A","N","S","F","E","R">>

\* Branch cheque
jana_parse_cheque(desc_clean) ==
  LET parts == split_transaction_description(desc_clean)
      single == FirstPart(parts, 1, Len(parts), party_ok)
  IN IF single # <<>> THEN single
     ELSE IF Len(parts) >= 2
          THEN FirstCombined(parts, 1, Len(parts), Len(parts), 2, party_ok)
     ELSE <<>>

\* the words the last branch skips at the start: a date of 8 digits, a bank code
jana_other_skipped(word) ==
  \/ (IsDigitText(word) /\ Len(word) = 8)
  \/ LET a == RunEnd(Upper(word), 1, UpperLetters)
         b == RunEnd(Upper(word), a + 1, Digits)
     IN a >= 3 /\ a <= 4 /\ b >= a + 1 /\ b = Len(word)

jana_other_word(word) == ~IsDigitText(word) /\ Len(word) >= 3

jana_other_ok(name) ==
  /\ is_valid_party_name(name)
  /\ Upper(name) \notin {<<"O","T","H","E","R">>, <<"T","R","A","N","S","A","C","T","I","O","N">>, <<"P","A","Y","M","E","N","T">>, <<"B","A","N","K">>}
  /\ ~has_bank_keyword(name)

\* The last branch: other transactions
jana_parse_other(desc_clean) ==
  LET words == Words(desc_clean)
      starts == {i \in 1..Len(words) : ~jana_other_skipped(words[i])}
      start_idx == IF starts = {} THEN 1 ELSE CHOOSE i \in starts : \A k \in starts : i <= k
      name_parts == SelectSeq(SubSeq(words, start_idx, Len(words)), jana_other_word)
      single == FirstPart(name_parts, 1, Len(name_parts), jana_other_ok)
  IN IF single # <<>> THEN single
     ELSE FirstCombined(name_parts, 1, Len(name_parts), Len(name_parts), 3, jana_other_ok)

\* The branch of parse_transaction_description the narration takes:
\* <<payment_category, party 1, party 2>> before cleaning
jana_parse_branch(desc_clean) ==
  LET upper == Upper(desc_clean)
      same(party) == <<party, party>>
      with(category, names) == <<category, names[1], names[2]>>
  IN IF Contains(upper, <<"N","E","F","T"," ","C","R">>) \/ (StartsWith(upper, <<"N","E","F","T">>) /\ Contains(upper, <<"C","R">>))
     THEN with(<<"N","E","F","T"," ","I","N","C","O","M","I","N","G">>, jana_parse_neft_cr(desc_clean))
     ELSE IF Contains(upper, <<"N","E","F","T"," ","D","R">>) \/ (StartsWith(upper, <<"N","E","F","T">>) /\ Contains(upper, <<"D","R">>))
     THEN with(<<"N","E","F","T"," ","O","U","T","G","O","I","N","G">>, same(jana_parse_neft_dr(desc_clean)))
     ELSE IF Contains(upper, <<"I","M","P","S">>) THEN with(<<"I","M","P","S">>, same(jana_parse_imps(desc_clean)))
     ELSE IF Contains(upper, <<"R","T","G","S">>) THEN with(<<"R","T","G","S">>, same(jana_parse_rtgs(desc_clean)))
     ELSE IF Contains(upper, <<"J","A","N","A"," ","C","A"," ","T","O"," ","J","A","N","A"," ","O","D">>)
     THEN IF Contains(upper, <<"C","R">>)
          THEN with(<<"I","N","T","E","R","N","A","L"," ","T","R","A","N","S","F","E","R"," ","C","R","E","D","I","T">>, same(jana_parse_internal_credit(desc_clean)))
          ELSE with(<<"I","N","T","E","R","N","A","L"," ","T","R","A","N","S","F","E","R"," ","D","E","B","I","T">>, same(<<"I","N","T","E","R","N","A","L"," ","T","R","A","N","S","F","E","R">>))
     ELSE IF Contains(upper, <<"C","A","S","H">>)
     THEN IF Contains(upper, <<"D","E","P","O","S","I","T">>) \/ Contains(upper, <<"C","R">>)
          THEN with(<<"C","A","S","H"," ","D","E","P","O","S","I","T">>, same(<<>>))
          ELSE with(<<"C","A","S","H"," ","W","I","T","H","D","R","A","W","A","L">>, same(<<>>))
     ELSE IF Contains(upper, <<"C","H","Q">>) \/ Contains(upper, <<"C","H","E","Q","U","E">>)
     THEN with(<<"C","H","E","Q","U","E">>, same(jana_parse_cheque(desc_clean)))
     ELSE with(<<"O","T","H","E","R"," ","T","R","A","N","S","A","C","T","I","O","N">>, same(jana_parse_other(desc_clean)))

\* The end of parse_transaction_description: each party name is cleaned on its own
jana_cleaned(found) ==
  <<found[1], clean_party_name(found[2]), clean_party_name(found[3])>>

\* JanaParser.parse_transaction_description: <<category, party 1, party 2>>
jana_parse_transaction_description(description) ==
  IF IsNa(description) \/ Strip(description) = <<>> THEN NoParse
  ELSE jana_cleaned(jana_parse_branch(Strip(description)))

\* The amounts and the direction of JanaParser._process_row
jana_amounts(amount_cell, flag_cell) ==
  LET amount == clean_amount(Strip(Str(amount_cell)))
      dr_cr_col == Upper(Strip(Str(flag_cell)))
  IN IF dr_cr_col = <<"C">> THEN <<"Credit", <<"0">>, amount>>
     ELSE IF dr_cr_col = <<"D">> THEN <<"Debit", amount, <<"0">>>>
     ELSE <<"", <<"0">>, <<"0">>>>

\* -------------------------------------------------------------- RBL parser

\* "More lenient check": letters, a reasonable length, no bank key word
rbl_lenient_ok(combined) ==
  Len(combined) >= 4 /\ HasAlpha(combined) /\ ~has_bank_keyword(combined)

rbl_from_word(word) ==
  ~IsDigitText(word) /\ Upper(word) \notin {<<"T","O">>, <<"B","Y">>, <<"V","I","A">>, <<"F","O","R">>, <<"P","A","Y","M","E","N","T">>}

rbl_plain_word(word) ==
  Upper(word) \notin {<<"F","R","O","M">>, <<"T","O">>, <<"B","Y">>, <<"V","I","A">>} /\ ~IsDigitText(word)

\* The loop of the IMPS branch without FROM: the words are joined one by one until
\* the join is a valid name; <<the name found or "", the words collected>>
RECURSIVE rbl_imps_build(_, _, _)
rbl_imps_build(words, i, party_parts) ==
  IF i > Len(words) THEN << <<>>, party_parts >>
  ELSE IF rbl_plain_word(words[i])
       THEN IF party_ok(JoinSpace(Append(party_parts, words[i])))
            THEN <<JoinSpace(Append(party_parts, words[i])), Append(party_parts, words[i])>>
            ELSE rbl_imps_build(words, i + 1, Append(party_parts, words[i]))
  ELSE rbl_imps_build(words, i + 1, party_parts)

\* The IMPS narrations without "/": the name after FROM, or after the reference
rbl_parse_imps_words(details_clean) ==
  LET words == Words(details_clean)
      froms == {i \in 1..(Len(words) - 1) : Upper(words[i]) = <<"F","R","O","M">>}
      from_idx == (CHOOSE i \in froms : \A k \in froms : i <= k) + 1
      after_from == JoinSpace(SelectSeq(SubSeq(words, from_idx, Len(words)), rbl_from_word))
      start_idx == IF Len(words) > 1 /\ IsDigitText(words[2]) THEN 3 ELSE 2
      built == rbl_imps_build(words, start_idx, <<>>)
      found == IF froms # {}
               THEN (IF rbl_lenient_ok(after_from) THEN after_from ELSE <<>>)
               ELSE IF built[1] # <<>> THEN built[1]
               ELSE IF built[2] # <<>> /\ rbl_lenient_ok(JoinSpace(built[2]))
                    THEN JoinSpace(built[2])
               ELSE <<>>
  IN IF found # <<>> THEN found ELSE <<"I","M","P","S"," ","T","R","A","N","S","F","E","R">>

\* the first valid part from position first on, the fallback name when there is none
rbl_first_valid(parts, first, fallback) ==
  LET found == FirstPart(parts, first, Len(parts), is_valid_party_name)
  IN IF found # <<>> THEN found ELSE fallback

\* The CMS narrations: <<payment_category, party>>
rbl_parse_cms(parts) ==
  LET second_part == Upper(parts[2])
      potential_party == IF Len(parts[2]) > 4 THEN SubSeq(parts[2], 5, Len(parts[2])) ELSE <<>>
  IN IF second_part = <<"R","T","G","S">> THEN <<<<"R","T","G","S">>, rbl_first_valid(parts, 3, <<"R","T","G","S"," ","T","R","A","N","S","F","E","R">>)>>
     ELSE IF StartsWith(second_part, <<"R","T","G","S">>)
          THEN IF potential_party # <<>> /\ is_valid_party_name(potential_party)
               THEN <<<<"R","T","G","S">>, Strip(potential_party)>>
               ELSE <<<<"R","T","G","S">>, rbl_first_valid(parts, 2, <<"R","T","G","S"," ","T","R","A","N","S","F","E","R">>)>>
     ELSE <<<<"C","M","S">>, IF is_valid_party_name(parts[2]) THEN parts[2] ELSE <<"C","M","S"," ","T","R","A","N","S","A","C","T","I","O","N">>>>

\* The narrations split by "/": <<payment_category, party>>
rbl_parse_parts(parts, details_clean) ==
  LET first_part == Upper(parts[1])
      upper == Upper(details_clean)
      words == Words(details_clean)
  IN IF first_part = <<"C","M","S">> /\ Len(parts) >= 2 THEN rbl_parse_cms(parts)
     ELSE IF first_part = <<"R","T","G","S">> THEN <<<<"R","T","G","S">>, rbl_first_valid(parts, 2, <<"R","T","G","S"," ","T","R","A","N","S","F","E","R">>)>>
     ELSE IF first_part = <<"N","E","F","T">> THEN <<<<"N","E","F","T">>, rbl_first_valid(parts, 2, <<"N","E","F","T"," ","T","R","A","N","S","F","E","R">>)>>
     ELSE IF first_part = <<"I","M","P","S">> THEN <<<<"I","M","P","S">>, rbl_first_valid(parts, 2, <<"I","M","P","S"," ","T","R","A","N","S","F","E","R">>)>>
     ELSE IF Contains(upper, <<"C","A","S","H">>)
          THEN IF Contains(upper, <<"D","E","P","O","S","I","T">>) THEN <<<<"C","A","S","H"," ","D","E","P","O","S","I","T">>, <<"C","A","S","H"," ","T","R","A","N","S","A","C","T","I","O","N">>>>
               ELSE <<<<"C","A","S","H"," ","W","I","T","H","D","R","A","W","A","L">>, <<"C","A","S","H"," ","T","R","A","N","S","A","C","T","I","O","N">>>>
     ELSE IF Contains(upper, <<"C","H","Q">>) \/ Contains(upper, <<"C","H","E","Q","U","E">>)
          THEN <<<<"C","H","E","Q","U","E">>, <<"C","H","E","Q","U","E"," ","T","R","A","N","S","A","C","T","I","O","N">>>>
     ELSE <<<<"O","T","H","E","R"," ","T","R","A","N","S","A","C","T","I","O","N">>, rbl_first_valid(words, 1, <<"O","T","H","E","R">>)>>

\* The cleaning at the end of parse_transaction_description
rbl_clean(party, payment_category, details_clean) ==
  IF /\ party # <<>>
     /\ party \notin {<<"I","M","P","S"," ","T","R","A","N","S","F","E","R">>, <<"N","E","F","T"," ","T","R","A","N","S","F","E","R">>, <<"R","T","G","S"," ","T","R","A","N","S","F","E","R">>, <<"C","M","S"," ","T","R","A","N","S","A","C","T","I","O","N">>}
     /\ payment_category = <<"I","M","P","S">> /\ Contains(Upper(details_clean), <<"F","R","O","M">>)
  THEN JoinSpace(Words(party))
  ELSE clean_party_name(party)

\* What parse_transaction_description gives when first_part is read unassigned
UnboundLocalError == <<"UnboundLocalError", "first_part">>

\* pd.Series([payment_category, party1, party2]) with party2 = party1
rbl_series(payment_category, party) == <<payment_category, party, party>>

\* The end of parse_transaction_description, found being <<payment_category, party>>
rbl_cleaned(found, details_clean) ==
  rbl_series(found[1], rbl_clean(found[2], found[1], details_clean))

\* RBLParser.parse_transaction_description: <<category, party 1, party 2>>; with
\* no part between the slashes first_part is read unassigned
rbl_parse_transaction_description(transaction_details) ==
  IF IsNa(transaction_details) \/ Strip(transaction_details) = <<>> THEN NoParse
  ELSE LET details_clean == Strip(transaction_details)
           parts == split_transaction_description(details_clean)
       IN IF Contains(Upper(details_clean), <<"I","M","P","S">>) /\ ~Contains(details_clean, <<"/">>)
          THEN rbl_cleaned(<<<<"I","M","P","S">>, rbl_parse_imps_words(details_clean)>>, details_clean)
          ELSE IF parts = <<>> THEN UnboundLocalError
          ELSE rbl_cleaned(rbl_parse_parts(parts, details_clean), details_clean)

\* The amounts and the direction of RBLParser._process_row
rbl_amounts(withdrawal_cell, deposit_cell) ==
  LET withdrawal_amt == clean_amount(Strip(Str(withdrawal_cell)))
      deposit_amt == clean_amount(Strip(Str(deposit_cell)))
  IN <<determine_debit_credit(withdrawal_amt, deposit_amt), withdrawal_amt, deposit_amt>>

\* ------------------------------------------------------- the column mappers

\* A role table: the roles in the order of the dict, each with its patterns
AXIS_COLUMN_PATTERNS ==
  << <<"S.N.", {<<"s",".","n","o">>, <<"s","n","o">>}>>,
     <<"Transaction Date", {<<"t","r","a","n","s","a","c","t","i","o","n">>, <<"d","a","t","e">>}>>,
     <<"Particulars", {<<"p","a","r","t","i","c","u","l","a","r">>}>>,
     <<"Amount(INR)", {<<"a","m","o","u","n","t">>}>>,
     <<"Debit/Credit", {<<"d","e","b","i","t","/","c","r","e","d">>, <<"d","e","b","i","t","/","c","r","e","d","i","t">>}>>,
     <<"Balance(INR)", {<<"b","a","l","a","n","c","e">>}>> >>

JANA_COLUMN_PATTERNS ==
  << <<"S.N.", {<<"s",".","n","o">>, <<"s","n","o">>}>>,
     <<"Transaction Date", {<<"t","r","a","n","s","a","c","t","i","o","n"," ","d","a","t","e">>}>>,
     <<"Value Date", {<<"v","a","l","u","e"," ","d","a","t","e">>}>>,
     <<"Description", {<<"d","e","s","c","r","i","p","t","i","o","n">>}>>,
     <<"Reference No", {<<"r","e","f","e","r","e","n","c","e">>}>>,
     <<"Dr/Cr", {<<"d","r","/","c","r">>}>>,
     <<"Transaction Amount", {<<"t","r","a","n","s","a","c","t","i","o","n"," ","a","m","o","u","n","t">>}>>,
     <<"Balance", {<<"r","u","n","n","i","n","g"," ","b","a","l","a","n","c","e">>}>> >>

\* The patterns written out in RBLParser._map_columns, in the order of its tests
RblPatterns ==
  << <<"S.N.", {<<"s",".","n","o">>, <<"s","n","o">>, <<"s","l">>, <<"s","l",".">>, <<"s","e","r","i","a","l">>}>>,
     <<"Transaction Date", {<<"t","r","a","n","s","a","c","t","i","o","n"," ","d","a","t","e">>, <<"t","r","a","n","s"," ","d","a","t","e">>, <<"d","a","t","e">>, <<"t","x","n"," ","d","a","t","e">>}>>,
     <<"Value Date", {<<"v","a","l","u","e"," ","d","a","t","e">>, <<"v","a","l"," ","d","a","t","e">>}>>,
     <<"Transaction Details", {<<"t","r","a","n","s","a","c","t","i","o","n"," ","d","e","t","a","i","l","s">>, <<"t","r","a","n","s","a","c","t","i","o","n"," ","d","e","t","a","i","l">>,
                               <<"p","a","r","t","i","c","u","l","a","r","s">>, <<"d","e","s","c","r","i","p","t","i","o","n">>, <<"n","a","r","r","a","t","i","o","n">>, <<"d","e","t","a","i","l","s">>}>>,
     <<"Withdrawal Amt", {<<"w","i","t","h","d","r","a","w","l">>, <<"w","i","t","h","d","r","a","w","a","l">>, <<"d","e","b","i","t">>, <<"d","r">>, <<"w","i","t","h","d","r","a","w">>}>>,
     <<"Deposit Amt", {<<"d","e","p","o","s","i","t">>, <<"c","r","e","d","i","t">>, <<"c","r">>}>>,
     <<"Balance", {<<"b","a","l","a","n","c","e">>, <<"b","a","l">>, <<"r","u","n","n","i","n","g"," ","b","a","l","a","n","c","e">>, <<"c","l","o","s","i","n","g"," ","b","a","l","a","n","c","e">>}>> >>

\* column_mapping = {}
NoMapping == [role \in {} |-> <<>>]

\* column_mapping[standard_name] = col
Mapped(column_mapping, standard_name, col) ==
  [role \in DOMAIN column_mapping \cup {standard_name} |->
     IF role = standard_name THEN col ELSE column_mapping[role]]

\* for standard_name, patterns in table.items(): if any(pattern in col_lower ...):
\* the position of the first role of the table the header matches, 0 when none
first_role(table, col_lower) ==
  LET hits == {k \in 1..Len(table) : ContainsAny(col_lower, table[k][2])}
  IN IF hits = {} THEN 0 ELSE CHOOSE k \in hits : \A j \in hits : k <= j

\* for col in columns: if test(col_lower): ...; break -- the first such header,
\* "" when there is none
first_header(columns, Test(_)) ==
  LET hits == {i \in 1..Len(columns) : Test(Strip(Lower(columns[i])))}
  IN IF hits = {} THEN <<>> ELSE columns[CHOOSE i \in hits : \A j \in hits : i <= j]

\* The first loop of AXISParser._map_columns: a header goes to the first role it
\* matches, unless that role is mapped already
RECURSIVE axis_table_loop(_, _)
axis_table_loop(columns, column_mapping) ==
  IF columns = <<>> THEN column_mapping
  ELSE LET col == Head(columns)
           k == first_role(AXIS_COLUMN_PATTERNS, Strip(Lower(col)))
       IN axis_table_loop(Tail(columns),
            IF k # 0 /\ AXIS_COLUMN_PATTERNS[k][1] \notin DOMAIN column_mapping
            THEN Mapped(column_mapping, AXIS_COLUMN_PATTERNS[k][1], col)
            ELSE column_mapping)

\* One "additional fallback mapping" of AXISParser._map_columns
axis_fallback(columns, column_mapping, standard_name, Test(_)) ==
  IF standard_name \in DOMAIN column_mapping
     \/ first_header(columns, Test) = <<>>
  THEN column_mapping
  ELSE Mapped(column_mapping, standard_name, first_header(columns, Test))

axis_particulars_like(c) ==
  Contains(c, <<"p","a","r","t","i","c","u","l","a","r">>) \/ Contains(c, <<"n","a","r","r","a","t","i","o","n">>) \/ Contains(c, <<"d","e","s","c","r","i","p","t","i","o","n">>)

axis_date_like(c) ==
  \/ Contains(c, <<"d","a","t","e">>) /\ Contains(c, <<"t","r","a","n","s","a","c","t","i","o","n">>)
  \/ Contains(c, <<"d","a","t","e">>) /\ ~Contains(c, <<"v","a","l","u","e">>)

axis_amount_like(c) == Contains(c, <<"a","m","o","u","n","t">>)

axis_direction_like(c) ==
  Contains(c, <<"d","e","b","i","t">>) \/ Contains(c, <<"c","r","e","d","i","t">>) \/ Contains(c, <<"d","r">>) \/ Contains(c, <<"c","r">>)

axis_balance_like(c) == Contains(c, <<"b","a","l","a","n","c","e">>)

\* AXISParser._map_columns
axis_map_columns(columns) ==
  LET m0 == axis_table_loop(columns, NoMapping)
      m1 == axis_fallback(columns, m0, "Particulars", axis_particulars_like)
      m2 == axis_fallback(columns, m1, "Transaction Date", axis_date_like)
      m3 == axis_fallback(columns, m2, "Amount(INR)", axis_amount_like)
      m4 == axis_fallback(columns, m3, "Debit/Credit", axis_direction_like)
  IN axis_fallback(columns, m4, "Balance(INR)", axis_balance_like)

\* A plausible slip: the loop of JanaParser._map_columns keeping the first header
RECURSIVE jana_map_columns_first(_, _)
jana_map_columns_first(columns, column_mapping) ==
  IF columns = <<>> THEN column_mapping
  ELSE LET col == Head(columns)
           k == first_role(JANA_COLUMN_PATTERNS, Lower(col))
       IN jana_map_columns_first(Tail(columns),
            IF k # 0 /\ JANA_COLUMN_PATTERNS[k][1] \notin DOMAIN column_mapping
            THEN Mapped(column_mapping, JANA_COLUMN_PATTERNS[k][1], col)
            ELSE column_mapping)

\* JanaParser._map_columns: a header goes to the first role it matches and
\* replaces the header that role had
RECURSIVE jana_map_columns(_, _)
jana_map_columns(columns, column_mapping) ==
  IF columns = <<>> THEN column_mapping
  ELSE LET col == Head(columns)
           k == first_role(JANA_COLUMN_PATTERNS, Lower(col))
       IN jana_map_columns(Tail(columns),
            IF k # 0 THEN Mapped(column_mapping, JANA_COLUMN_PATTERNS[k][1], col)
            ELSE column_mapping)

\* The tests RBLParser._map_columns makes for one header: each role that is not
\* mapped yet and has a pattern in the header takes it
RECURSIVE rbl_tests(_, _, _)
rbl_tests(col, k, column_mapping) ==
  IF k > Len(RblPatterns) THEN column_mapping
  ELSE rbl_tests(col, k + 1,
         IF /\ RblPatterns[k][1] \notin DOMAIN column_mapping
            /\ ContainsAny(Strip(Lower(col)), RblPatterns[k][2])
         THEN Mapped(column_mapping, RblPatterns[k][1], col)
         ELSE column_mapping)

\* RBLParser._map_columns
RECURSIVE rbl_map_columns(_, _)
rbl_map_columns(columns, column_mapping) ==
  IF columns = <<>> THEN column_mapping
  ELSE rbl_map_columns(Tail(columns), rbl_tests(Head(columns), 1, column_mapping))

\* _map_columns of the dialect
map_columns(b, columns) ==
  CASE b = "AXIS" -> axis_map_columns(columns)
    [] b = "Jana Bank" -> jana_map_columns(columns, NoMapping)
    [] b = "RBL Bank" -> rbl_map_columns(columns, NoMapping)
\* ------------------------------------------------------------------ state

VARIABLES
  pc,            \* the step the run is at
  cl_tokens,     \* classify_transaction_remark: the narration, as the chunks it is made of
  cl_category,   \*   its payment_category argument
  cl_rejected,   \*   its rejected_cheque_numbers argument
  cl_remark,     \*   the tag it returned
  ch_run,        \* cheque-number extraction: the digit run of the narration
  ch_narration,  \*   the narration made around the run
  ch_number,     \*   the number extracted from it
  dc_withdrawal, \* determine_debit_credit: its withdrawal_amt argument
  dc_deposit,    \*   its deposit_amt argument
  dc_direction,  \*   the direction it returned
  cp_chunks,     \* clean_party_name: the name, as the chunks it is made of
  cp_once,       \*   clean_party_name(name)
  cp_twice,      \*   clean_party_name(clean_party_name(name))
  bank,          \* process_file: the dialect of the statement
  columns,       \*   the columns of the uploaded sheet, left to right
  sheet,         \*   the rows of the uploaded sheet below its header
  column_mapping, \*  the mapping _map_columns returned for the sheet, role -> header
  raw,           \*   the frame read from the sheet and cleaned (rows keep their labels)
  df,            \*   the frame with the derived columns, the output table in the end
  processed_data, \*  the records the row loop of AXIS, Jana and RBL has emitted
  cursor,        \*   the position of the loop that is running
  serial_number, \*   the counter of RBLParser.process_file
  clg_cheque_numbers,      \* add_remark_column: cheque number -> position of the CLG row
  rejected_cheque_numbers, \*   the numbers of the REJECT rows
  remarks,       \*   the remarks computed so far
  error,         \* the exception process_file ended with, "" when none
  vn_chunks,     \* is_valid_party_name: the name, as the chunks it is made of
  vn_valid,      \*   what it returned
  ca_chunks,     \* clean_amount: the amount text, as the chunks it is made of
  ca_cleaned,    \*   the text it returned
  pt_parts,      \* one ICICI narration: the tokens its text is made of
  mc_bank,       \* _map_columns: the dialect of the mapper
  mc_columns,    \*   the headers of the sheet, left to right
  mc_mapping,    \*   the mapping it returned, role -> header
  pa_bank,       \* parse_transaction_description: the dialect of the parser
  pa_parts,      \*   the narration, as the tokens between its slashes
  pa_parsed      \*   the <<category, party 1, party 2>> it returned

classifyVars == <<cl_tokens, cl_category, cl_rejected, cl_remark>>

chequeVars == <<ch_run, ch_narration, ch_number>>

directionVars == <<dc_withdrawal, dc_deposit, dc_direction>>

cleanVars == <<cp_chunks, cp_once, cp_twice>>

fileVars ==
  <<bank, columns, column_mapping, sheet, raw, df, processed_data, cursor, serial_number,
    clg_cheque_numbers, rejected_cheque_numbers, remarks, error>>

validVars == <<vn_chunks, vn_valid>>

amountVars == <<ca_chunks, ca_cleaned>>

columnsVars == <<mc_bank, mc_columns, mc_mapping>>

parseVars == <<pa_bank, pa_parts, pa_parsed>>

otherVars == <<pt_parts, columnsVars, parseVars>>

moreVars == <<validVars, amountVars, otherVars>>

vars == <<pc, classifyVars, chequeVars, directionVars, cleanVars, fileVars, moreVars>>

\* The value of a text that has not been computed
None == <<"None">>

\* ''.join(chunks)
RECURSIVE Concat(_)
Concat(chunks) == IF chunks = <<>> THEN <<>> ELSE Head(chunks) \o Concat(Tail(chunks))

\* The variables of the runs that are not taking place
ClassifyIdle ==
  cl_tokens = <<>> /\ cl_category = <<>> /\ cl_rejected = {} /\ cl_remark = "None"

ChequeIdle == ch_run = <<>> /\ ch_narration = None /\ ch_number = None

DirectionIdle == dc_withdrawal = None /\ dc_deposit = None /\ dc_direction = "None"

CleanIdle == cp_chunks = <<>> /\ cp_once = None /\ cp_twice = None

ValidIdle == vn_chunks = <<>> /\ vn_valid = FALSE

AmountIdle == ca_chunks = <<>> /\ ca_cleaned = None

ColumnsIdle == mc_bank = "None" /\ mc_columns = <<>> /\ mc_mapping = <<>>

ParseIdle == pa_bank = "None" /\ pa_parts = <<>> /\ pa_parsed = None

OtherIdle == pt_parts = <<>> /\ ColumnsIdle /\ ParseIdle

MoreIdle == ValidIdle /\ AmountIdle /\ OtherIdle

FileIdle ==
  /\ bank = "None" /\ columns = <<>> /\ column_mapping = <<>> /\ sheet = <<>> /\ raw = <<>> /\ df = <<>> /\ processed_data = <<>>
  /\ cursor = 0 /\ serial_number = 0
  /\ clg_cheque_numbers = {} /\ rejected_cheque_numbers = {} /\ remarks = <<>>
  /\ error = ""

\* ------------------------------------- classify_transaction_remark, alone

\* Number of chunks a narration is made of
MaxChunks == 2

\* The chunks: every key word and prefix the rules test, in upper and mixed case
NarrationChunks ==
  {<<"R","E","J","E","C","T",":","1","8","2","8","0">>, <<"R","e","j","e","c","t"," ">>, <<"U","P","I","/">>, <<"u","p","i">>, <<"B","Y"," ","C","A","S","H"," ">>, <<"C","A","M","/">>, <<"C","A","S","H"," ","D","E","P">>, <<"C","M","S","/">>,
   <<"G","I","B">>, <<"A","C","H","/">>, <<"B","I","L","/">>, <<"O","N","L">>, <<"E","Z","Y","/">>, <<"C","h","q"," ","r","t","n"," ","C","h","g">>, <<"D","D"," ","I","S","S","U","E","D">>, <<" ","L","I","M","I","T","E","D">>,
   <<"P","V","T"," ","L","T","D">>, <<"D","A","B","U","R">>, <<"C","L","G","/","0","1","8","2","8","0","/">>, <<"C","L","G","/","1","8","2","8","1","/">>, <<"N","E","F","T","/","R","A","V","I">>, <<" ">>,
   <<"U","P","I","/","j","o","h","n","d","o","e","@","b","a","n","k","/","T","R","A","N","S","F","E","R","/","1","2","3","4","5","6","7","8","9","0">>}

\* The payment categories the parsers produce that the rules test, and two others
RemarkCategories == {<<>>, <<"N","E","F","T">>, <<"U","P","I">>, <<"R","E","J","E","C","T">>, <<"C","H","E","Q","U","E"," ","C","L","E","A","R","I","N","G">>}

\* The rejected-cheque sets: none, one number, two numbers
RejectedSets == {{}, {<<"0","1","8","2","8","0">>}, {<<"0","1","8","2","8","0">>, <<"0","1","8","2","8","1">>}}

cl_description == Concat(cl_tokens)

ClassifyInit ==
  /\ pc = "cl_build"
  /\ ClassifyIdle
  /\ ChequeIdle /\ DirectionIdle /\ CleanIdle /\ FileIdle /\ MoreIdle

\* The caller writes one more chunk of the narration
ClAddChunk ==
  /\ pc = "cl_build"
  /\ Len(cl_tokens) < MaxChunks
  /\ \E t \in NarrationChunks : cl_tokens' = Append(cl_tokens, t)
  /\ UNCHANGED <<pc, cl_category, cl_rejected, cl_remark>>
  /\ UNCHANGED <<chequeVars, directionVars, cleanVars, fileVars, moreVars>>

\* One call of classify_transaction_remark
ClClassify ==
  /\ pc = "cl_build"
  /\ \E c \in RemarkCategories, r \in RejectedSets :
       /\ cl_category' = c
       /\ cl_rejected' = r
       /\ cl_remark' = classify_transaction_remark(cl_description, c, r)
  /\ pc' = "cl_done"
  /\ UNCHANGED cl_tokens
  /\ UNCHANGED <<chequeVars, directionVars, cleanVars, fileVars, moreVars>>

ClassifyNext == ClAddChunk \/ ClClassify

SpecClassify == ClassifyInit /\ [][ClassifyNext]_vars

\* ------------------------------------------- cheque-number extraction, alone

\* Length of the longest digit run
MaxRun == 7

\* The digit runs are the prefixes of these
RunSeeds == {<<"1","8","2","8","0","7","7","7","1">>, <<"1","1","8","6","4","7","9","9","9">>, <<"0","0","0","0","1","2","3","4","5">>, <<"4","3","2","1","0","0","0","0","0">>}

\* What stands before the digit run: a CLG tag or a REJECT key word
ChequePrefixes ==
  {<<"C","L","G","/">>, <<"c","l","g","/"," ">>, <<"R","E","J","E","C","T",":">>, <<"B","R","N","-","O","W"," ","R","T","N"," ","C","L","G",":"," ","R","E","J","E","C","T",":">>, <<"R","e","j","e","c","t"," "," ">>}

\* What follows it
ChequeSuffixes == {<<>>, <<"/","0","1","1","1","2","5","/","A","B","C"," ","T","R","A","D","E","R","S">>, <<":","O","t","h","e","r"," ","r","e","a","s","o","n","s">>, <<" ","x","/","1">>}

ChequeInit ==
  /\ pc = "ch_build"
  /\ ChequeIdle
  /\ ClassifyIdle /\ DirectionIdle /\ CleanIdle /\ FileIdle /\ MoreIdle

\* The bank writes one more digit of the cheque number
ChAddDigit ==
  /\ pc = "ch_build"
  /\ Len(ch_run) < MaxRun
  /\ \E seed \in RunSeeds :
       /\ Len(ch_run) < Len(seed)
       /\ SubSeq(seed, 1, Len(ch_run)) = ch_run
       /\ ch_run' = SubSeq(seed, 1, Len(ch_run) + 1)
  /\ UNCHANGED <<pc, ch_narration, ch_number>>
  /\ UNCHANGED <<classifyVars, directionVars, cleanVars, fileVars, moreVars>>

\* One call of extract_cheque_number_from_clg (a narration that starts with CLG/)
\* or of extract_cheque_number_from_reject (any other)
ChExtract ==
  /\ pc = "ch_build"
  /\ \E p \in ChequePrefixes, q \in ChequeSuffixes :
       LET narration == p \o ch_run \o q IN
         /\ ch_narration' = narration
         /\ ch_number' = IF StartsWith(Upper(p), <<"C","L","G","/">>)
                         THEN extract_cheque_number_from_clg(narration)
                         ELSE extract_cheque_number_from_reject(narration)
  /\ pc' = "ch_done"
  /\ UNCHANGED ch_run
  /\ UNCHANGED <<classifyVars, directionVars, cleanVars, fileVars, moreVars>>

ChequeNext == ChAddDigit \/ ChExtract

SpecCheque == ChequeInit /\ [][ChequeNext]_vars

\* -------------------------------------------- determine_debit_credit, alone

\* The amount cells: missing, blank, the texts of zero, and amounts
AmountTexts ==
  {NaN, <<>>, <<" ">>, <<"0">>, <<"0",".","0">>, <<"0",".","0","0">>, <<"0","0">>, <<"2","5","0",".","0","0">>, <<"5","0","0",".","0","0">>, <<"1",",","2","3",",","4","5","6",".","5","0">>, <<"1","5",",","0","0","0",".","0","0">>}

DirectionInit ==
  /\ pc = "dc_call"
  /\ dc_withdrawal \in AmountTexts
  /\ dc_deposit \in AmountTexts
  /\ dc_direction = "None"
  /\ ClassifyIdle /\ ChequeIdle /\ CleanIdle /\ FileIdle /\ MoreIdle

\* One call of determine_debit_credit
DcDetermine ==
  /\ pc = "dc_call"
  /\ dc_direction' = determine_debit_credit(dc_withdrawal, dc_deposit)
  /\ pc' = "dc_done"
  /\ UNCHANGED <<dc_withdrawal, dc_deposit>>
  /\ UNCHANGED <<classifyVars, chequeVars, cleanVars, fileVars, moreVars>>

DirectionNext == DcDetermine

SpecDirection == DirectionInit /\ [][DirectionNext]_vars

\* ------------------------------------------------- clean_party_name, alone

\* Number of chunks a name is made of
MaxNameChunks == 3

\* The chunks: words, single letters, digits, codes, dates, boilerplate
NameChunks ==
  {<<"R","A","V","I">>, <<"K","U","M","A","R">>, <<" ">>, <<" ","A">>, <<" ","B">>, <<"/","C">>, <<" ","1","2">>, <<"3","4">>, <<" ","S","B","I","N","0","0","0","1">>, <<" ","1","7"," ","J","U","L","Y">>,
   <<" ","P","A","Y">>, <<"m","e","n","t">>, <<" ","H","D","F","C"," ","B","A","N","K">>, <<"/">>}

cp_name == Concat(cp_chunks)

CleanInit ==
  /\ pc = "cp_build"
  /\ CleanIdle
  /\ ClassifyIdle /\ ChequeIdle /\ DirectionIdle /\ FileIdle /\ MoreIdle

\* The caller writes one more chunk of the name
CpAddChunk ==
  /\ pc = "cp_build"
  /\ Len(cp_chunks) < MaxNameChunks
  /\ \E t \in NameChunks : cp_chunks' = Append(cp_chunks, t)
  /\ UNCHANGED <<pc, cp_once, cp_twice>>
  /\ UNCHANGED <<classifyVars, chequeVars, directionVars, fileVars, moreVars>>

\* clean_party_name(name)
CpClean ==
  /\ pc = "cp_build"
  /\ cp_once' = clean_party_name(cp_name)
  /\ pc' = "cp_once"
  /\ UNCHANGED <<cp_chunks, cp_twice>>
  /\ UNCHANGED <<classifyVars, chequeVars, directionVars, fileVars, moreVars>>

\* clean_party_name applied to its own result
CpCleanAgain ==
  /\ pc = "cp_once"
  /\ cp_twice' = clean_party_name(cp_once)
  /\ pc' = "cp_twice"
  /\ UNCHANGED <<cp_chunks, cp_once>>
  /\ UNCHANGED <<classifyVars, chequeVars, directionVars, fileVars, moreVars>>

CleanNext == CpAddChunk \/ CpClean \/ CpCleanAgain

SpecClean == CleanInit /\ [][CleanNext]_vars


\* ---------------------------------------------- is_valid_party_name, alone

\* Number of chunks a candidate name is made of
MaxValidChunks == 2

\* The chunks: transaction types in upper, lower and mixed case, digits, short
\* texts, words, a code, punctuation
ValidChunks ==
  {<<"N","E","F","T">>, <<"n","e","f","t">>, <<"I","n","f","t">>, <<"I","M","P","S">>, <<"M","M","T">>, <<"c","l","g">>, <<"1","2">>, <<"3","4","5">>, <<"7">>, <<"A","B">>, <<"c">>, <<" ">>,
   <<"R","A","V","I">>, <<" ","K","U","M","A","R">>, <<"S","B","I","N","0","0","0","1">>, <<"@","#","$","%">>}

vn_name == Concat(vn_chunks)

ValidInit ==
  /\ pc = "vn_build"
  /\ ValidIdle /\ AmountIdle /\ OtherIdle
  /\ ClassifyIdle /\ ChequeIdle /\ DirectionIdle /\ CleanIdle /\ FileIdle

\* The caller writes one more chunk of the candidate
VnAddChunk ==
  /\ pc = "vn_build"
  /\ Len(vn_chunks) < MaxValidChunks
  /\ \E t \in ValidChunks : vn_chunks' = Append(vn_chunks, t)
  /\ UNCHANGED <<pc, vn_valid, amountVars, otherVars>>
  /\ UNCHANGED <<classifyVars, chequeVars, directionVars, cleanVars, fileVars>>

\* One call of is_valid_party_name
VnValidate ==
  /\ pc = "vn_build"
  /\ vn_valid' = is_valid_party_name(vn_name)
  /\ pc' = "vn_done"
  /\ UNCHANGED <<vn_chunks, amountVars, otherVars>>
  /\ UNCHANGED <<classifyVars, chequeVars, directionVars, cleanVars, fileVars>>

ValidNext == VnAddChunk \/ VnValidate

SpecValid == ValidInit /\ [][ValidNext]_vars

\* ----------------------------------------------------- clean_amount, alone

\* Number of chunks an amount text is made of
MaxAmountChunks == 3

\* The chunks: digits, separators, blanks, a currency mark, a sign, letters
AmountChunks ==
  {<<"1",",","2","3">>, <<",","4","5","6">>, <<".","5","0">>, <<"0">>, <<"1","5",",","0","0","0",".","0","0">>, <<" ">>, <<"R","s","."," ">>, <<"-">>, <<"a","b","c">>, <<".">>, <<"$">>}

ca_text == Concat(ca_chunks)

AmountInit ==
  /\ pc = "ca_build"
  /\ ValidIdle /\ AmountIdle /\ OtherIdle
  /\ ClassifyIdle /\ ChequeIdle /\ DirectionIdle /\ CleanIdle /\ FileIdle

\* The sheet has one more chunk of the amount text
CaAddChunk ==
  /\ pc = "ca_build"
  /\ Len(ca_chunks) < MaxAmountChunks
  /\ \E t \in AmountChunks : ca_chunks' = Append(ca_chunks, t)
  /\ UNCHANGED <<pc, ca_cleaned, validVars, otherVars>>
  /\ UNCHANGED <<classifyVars, chequeVars, directionVars, cleanVars, fileVars>>

\* One call of clean_amount
CaClean ==
  /\ pc = "ca_build"
  /\ ca_cleaned' = clean_amount(ca_text)
  /\ pc' = "ca_done"
  /\ UNCHANGED <<ca_chunks, validVars, otherVars>>
  /\ UNCHANGED <<classifyVars, chequeVars, directionVars, cleanVars, fileVars>>

AmountNext == CaAddChunk \/ CaClean

SpecAmount == AmountInit /\ [][AmountNext]_vars

\* ----------------------------------------------------- _map_columns, alone

\* Number of headers a sheet has
MaxHeaders == 3

\* The dialects that map columns by header text
MappingBanks == {"AXIS", "Jana Bank", "RBL Bank"}

\* The header texts: the names the banks use and the variations the mappers
\* allow for
HeaderTexts ==
  {<<"T","r","a","n"," ","D","a","t","e">>, <<"T","r","a","n","s","a","c","t","i","o","n"," ","D","a","t","e">>, <<"V","a","l","u","e"," ","D","a","t","e">>, <<"D","e","s","c","r","i","p","t","i","o","n">>,
   <<"T","r","a","n","s","a","c","t","i","o","n"," ","D","e","s","c","r","i","p","t","i","o","n">>, <<"N","a","r","r","a","t","i","o","n">>, <<"P","a","r","t","i","c","u","l","a","r","s">>, <<"A","m","o","u","n","t"," ","(","D","r","/","C","r",")">>,
   <<"B","a","l","a","n","c","e">>}

ColumnsInit ==
  /\ pc = "mc_build"
  /\ mc_bank \in MappingBanks
  /\ mc_columns = <<>> /\ mc_mapping = <<>>
  /\ ValidIdle /\ AmountIdle /\ pt_parts = <<>> /\ ParseIdle
  /\ ClassifyIdle /\ ChequeIdle /\ DirectionIdle /\ CleanIdle /\ FileIdle

\* The sheet has one more column; pandas gives no two columns the same header
McAddHeader ==
  /\ pc = "mc_build"
  /\ Len(mc_columns) < MaxHeaders
  /\ \E col \in HeaderTexts :
       /\ \A i \in 1..Len(mc_columns) : mc_columns[i] # col
       /\ mc_columns' = Append(mc_columns, col)
  /\ UNCHANGED <<pc, mc_bank, mc_mapping, validVars, amountVars, pt_parts, parseVars>>
  /\ UNCHANGED <<classifyVars, chequeVars, directionVars, cleanVars, fileVars>>

\* One call of _map_columns
McMap ==
  /\ pc = "mc_build"
  /\ mc_mapping' = map_columns(mc_bank, mc_columns)
  /\ pc' = "mc_done"
  /\ UNCHANGED <<mc_bank, mc_columns, validVars, amountVars, pt_parts, parseVars>>
  /\ UNCHANGED <<classifyVars, chequeVars, directionVars, cleanVars, fileVars>>

ColumnsNext == McAddHeader \/ McMap

SpecColumns == ColumnsInit /\ [][ColumnsNext]_vars
\* ------------------------------------------------- process_file: the rows

\* The dialects of BankParserFactory
Banks == {"ICICI Yearly", "ICICI Monthly", "AXIS", "Jana Bank", "RBL Bank"}

IciciBanks == {"ICICI Yearly", "ICICI Monthly"}

\* The shapes of date text the sheets below carry: DD/MM/YYYY and YYYY-MM-DD
IsDayMonthYear(s) ==
  /\ Len(s) = 10 /\ s[3] = "/" /\ s[6] = "/"
  /\ \A i \in {1, 2, 4, 5, 7, 8, 9, 10} : IsDigit(s[i])

IsYearMonthDay(s) ==
  /\ Len(s) = 10 /\ s[5] = "-" /\ s[8] = "-"
  /\ \A i \in {1, 2, 3, 4, 6, 7, 9, 10} : IsDigit(s[i])

\* format_date: "" for a missing or blank cell and for a text pd.to_datetime does
\* not parse, DD/MM/YYYY otherwise (texts of the two shapes above are the ones
\* taken as parseable)
format_date(date_str) ==
  IF IsNa(date_str) \/ Strip(date_str) = <<>> THEN <<>>
  ELSE LET s == Strip(date_str) IN
    IF IsDayMonthYear(s) THEN s
    ELSE IF IsYearMonthDay(s)
      THEN SubSeq(s, 9, 10) \o <<"/">> \o SubSeq(s, 6, 7) \o <<"/">> \o SubSeq(s, 1, 4)
    ELSE <<>>

\* A row of a sheet: the cells of its date, narration, amount and flag columns;
\* a column the dialect does not have is a missing cell. The columns the cells
\* stand in, and their headers, are those of the sheet (columns).
SheetRow(date, narration, withdrawal, deposit, flag, amount) ==
  [date |-> date, narration |-> narration, withdrawal |-> withdrawal,
   deposit |-> deposit, flag |-> flag, amount |-> amount]

BlankRow == SheetRow(NaN, NaN, NaN, NaN, NaN, NaN)

\* The rows the sheets are made of: rows with a narration and a date, rows without
\* a narration, rows whose date cell is empty or holds a text that is no date, and,
\* for ICICI, the all-empty row.

\* The rows an ICICI yearly sheet is made of (amounts in two columns)
IciciYearlyRows ==
  { BlankRow,
    SheetRow(<<"0","1","/","0","4","/","2","0","2","4">>, <<"C","L","G","/","0","1","8","2","8","0","/","0","1","1","1","2","5","/","A","B","C"," ","T","R","A","D","E","R","S">>, NaN, <<"5","0","0",".","0","0">>, NaN, NaN),
    SheetRow(<<"0","2","/","0","4","/","2","0","2","4">>, <<"B","R","N","-","O","W"," ","R","T","N"," ","C","L","G",":"," ","R","E","J","E","C","T",":","1","8","2","8","0",":","O","t","h","e","r"," ","r","e","a","s","o","n","s">>, <<"5","0","0",".","0","0">>, NaN, NaN, NaN),
    SheetRow(<<"2","0","2","4","-","0","4","-","0","3">>, <<"C","L","G","/","1","1","8","6","4","7","/","0","1","1","1","2","5","/","X","Y","Z"," ","L","I","M","I","T","E","D">>, <<"2","5","0",".","0","0">>, <<"0",".","0","0">>, NaN, NaN),
    SheetRow(<<"0","4","/","0","4","/","2","0","2","4">>, <<"C","A","S","H"," ","D","E","P","/","S","E","L","F">>, <<"0">>, <<"0">>, NaN, NaN),
    SheetRow(NaN, <<"B","Y"," ","C","A","S","H">>, NaN, <<"1","5",",","0","0","0",".","0","0">>, NaN, NaN) }

\* The rows an ICICI monthly sheet is made of (Cr/Dr and one amount column)
IciciMonthlyRows ==
  { BlankRow,
    SheetRow(<<"0","1","/","0","4","/","2","0","2","4">>, <<"C","L","G","/","0","1","8","2","8","0","/","0","1","1","1","2","5","/","A","B","C"," ","T","R","A","D","E","R","S">>, NaN, NaN, <<"C","R">>, <<"5","0","0",".","0","0">>),
    SheetRow(<<"0","2","/","0","4","/","2","0","2","4">>, <<"B","R","N","-","O","W"," ","R","T","N"," ","C","L","G",":"," ","R","E","J","E","C","T",":","1","8","2","8","0",":","O","t","h","e","r"," ","r","e","a","s","o","n","s">>, NaN, NaN, <<"D","R">>, <<"5","0","0",".","0","0">>),
    SheetRow(<<"0","3","/","0","4","/","2","0","2","4">>, <<"C","L","G","/","1","1","8","6","4","7","/","0","1","1","1","2","5","/","X","Y","Z"," ","L","I","M","I","T","E","D">>, NaN, NaN, <<"C","R">>, NaN),
    SheetRow(<<"p","e","n","d","i","n","g">>, <<"C","A","S","H"," ","D","E","P","/","S","E","L","F">>, NaN, NaN, NaN, <<"1","0","0",".","0","0">>),
    SheetRow(<<"0","5","/","0","4","/","2","0","2","4">>, <<"C","A","S","H","/","R","A","V","I"," ","K","U","M","A","R">>, NaN, NaN, <<" ","d","r"," ">>, <<"2",",","0","0","0",".","0","0">>) }

\* The rows of an AXIS sheet from row 22 on (row 21, which process_file drops
\* unread, is the empty row of the bank's layout)
AxisRows ==
  { SheetRow(<<"0","1","/","0","4","/","2","0","2","4">>, <<"C","L","G","/","0","1","8","2","8","0","/","1","5","1","0","2","5","/","S","t","a","t","e"," ","B","a","n","k","/","S","U","N","R","I","S","E"," ","F","O","O","D","S">>, NaN, NaN, <<"D","R">>, <<"5","0","0",".","0","0">>),
    SheetRow(<<"0","2","/","0","4","/","2","0","2","4">>, <<"R","E","J","E","C","T",":","1","8","2","8","0",":","O","t","h","e","r"," ","r","e","a","s","o","n","s">>, NaN, NaN, <<"C","R">>, <<"5","0","0",".","0","0">>),
    SheetRow(<<"0","3","/","0","4","/","2","0","2","4">>, <<"C","A","S","H"," ","D","E","P","/","S","E","L","F">>, NaN, NaN, NaN, <<"0">>),
    SheetRow(NaN, <<"B","Y"," ","C","A","S","H"," ","W","D">>, NaN, NaN, <<"C","R">>, <<"0",".","0","0">>),
    SheetRow(NaN, <<"O","P","E","N","I","N","G"," ","B","A","L","A","N","C","E">>, NaN, NaN, NaN, <<"1",",","0","0","0",".","0","0">>),
    SheetRow(<<"0","6","/","0","4","/","2","0","2","4">>, NaN, NaN, NaN, <<"C","R">>, <<"1","0",".","0","0">>) }

\* The rows of a Jana sheet
JanaRows ==
  { SheetRow(<<"0","1","/","0","4","/","2","0","2","4">>, <<"N","E","F","T"," ","C","R","-","S","B","I","N","0","0","0","1","-","M","A","H","I","N","D","R","A","-","R","A","V","I"," ","K","U","M","A","R","-","R","E","F","1","2","3">>, NaN, NaN, <<"C">>, <<"5","0","0",".","0","0">>),
    SheetRow(<<"0","2","/","0","4","/","2","0","2","4">>, <<"C","A","S","H"," ","D","E","P","O","S","I","T"," ","B","Y"," ","S","E","L","F">>, NaN, NaN, <<"C">>, NaN),
    SheetRow(<<"p","e","n","d","i","n","g">>, <<"C","A","S","H"," ","W","D","L">>, NaN, NaN, NaN, <<"7","0","0",".","0","0">>),
    SheetRow(<<"0","4","/","0","4","/","2","0","2","4">>, <<"C","L","G","/","0","1","8","2","8","0","/","1","5","1","0","2","5","/","A","B","C"," ","T","R","A","D","E","R","S">>, NaN, NaN, <<"D">>, <<"5","0","0",".","0","0">>),
    SheetRow(<<"0","5","/","0","4","/","2","0","2","4">>, <<"R","E","J","E","C","T",":","1","8","2","8","0",":","O","t","h","e","r"," ","r","e","a","s","o","n","s">>, NaN, NaN, <<"C">>, <<"5","0","0",".","0","0">>),
    SheetRow(<<"0","6","/","0","4","/","2","0","2","4">>, NaN, NaN, NaN, <<"D">>, <<"1","0",".","0","0">>) }

\* The rows of an RBL sheet
RblRows ==
  { SheetRow(<<"0","1","/","0","4","/","2","0","2","4">>, <<"C","L","G","/","0","1","8","2","8","0","/","1","5","1","0","2","5","/","A","B","C"," ","T","R","A","D","E","R","S">>, <<"5","0","0",".","0","0">>, NaN, NaN, NaN),
    SheetRow(<<"0","2","/","0","4","/","2","0","2","4">>, <<"R","E","J","E","C","T",":","1","8","2","8","0",":","O","t","h","e","r"," ","r","e","a","s","o","n","s">>, NaN, <<"5","0","0",".","0","0">>, NaN, NaN),
    SheetRow(<<"0","3","/","0","4","/","2","0","2","4">>, <<"A","T","M"," ","C","A","S","H"," ","W","D","L">>, NaN, NaN, NaN, NaN),
    SheetRow(<<"0","4","/","0","4","/","2","0","2","4">>, <<"C","A","S","H"," ","D","E","P","O","S","I","T","/","S","E","L","F">>, <<"2","5","0",".","0","0">>, <<"0",".","0","0">>, NaN, NaN),
    SheetRow(NaN, <<"I","M","P","S"," ","5","2","9","0","1","0","2","1","9","9","0","3"," ","F","R","O","M"," ","S","C","O","O","T","S","Y"," ","L","O","G","I","S","T","I","C","S"," ","P","V","T">>, <<"1","0",".","0","0">>, NaN, NaN, NaN),
    SheetRow(<<"0","6","/","0","4","/","2","0","2","4">>, <<" ","-"," ">>, <<"1","0",".","0","0">>, NaN, NaN, NaN) }

SheetRows(b) ==
  CASE b = "ICICI Yearly" -> IciciYearlyRows
    [] b = "ICICI Monthly" -> IciciMonthlyRows
    [] b = "AXIS" -> AxisRows
    [] b = "Jana Bank" -> JanaRows
    [] b = "RBL Bank" -> RblRows

\* A row of a frame: the cells of the sheet under the row's label, and the derived
\* columns, not yet computed
FrameRow(label, row) ==
  [label |-> label, sn |-> 0, date |-> row.date, narration |-> row.narration,
   withdrawal |-> row.withdrawal, deposit |-> row.deposit, flag |-> row.flag,
   amount |-> row.amount, direction |-> "None", category |-> None,
   party1 |-> None, party2 |-> None, remark |-> "None"]

\* read_excel_file: the rows under the labels 0, 1, 2, ...
read_excel_file(rows) == [i \in 1..Len(rows) |-> FrameRow(i - 1, rows[i])]

IsBlankRow(r) ==
  /\ IsNa(r.date) /\ IsNa(r.narration) /\ IsNa(r.withdrawal)
  /\ IsNa(r.deposit) /\ IsNa(r.flag) /\ IsNa(r.amount)

\* clean_dataframe: dropna(how='all'); the rows left keep their labels
clean_dataframe(frame) == SelectSeq(frame, LAMBDA r : ~IsBlankRow(r))

\* pd.DataFrame(processed_data): the records under fresh labels 0 .. n-1
DataFrame(records) == [i \in 1..Len(records) |-> [records[i] EXCEPT !.label = i - 1]]

\* The row mask of AXISParser.process_file: some cell contains OPENING BALANCE
has_opening_balance(r) ==
  \E cell \in {r.date, r.narration, r.withdrawal, r.deposit, r.flag, r.amount} :
    ~IsNa(cell) /\ Contains(Upper(cell), <<"O","P","E","N","I","N","G"," ","B","A","L","A","N","C","E">>)

\* The record of a row, given its texts, its <<direction, withdrawal, deposit>>
\* and its <<category, party1, party2>>; the cash correction is applied here
ProcessedRow(row, sn, date, narration, amounts, parsed) ==
  [row EXCEPT !.sn = sn, !.date = date, !.narration = narration,
              !.direction = amounts[1], !.withdrawal = amounts[2],
              !.deposit = amounts[3],
              !.category = cash_correction(parsed[1], amounts[1]),
              !.party1 = parsed[2], !.party2 = parsed[3]]

\* The test of the row loop of AXISParser.process_file
axis_row_skipped(row) == IsNa(row.narration) \/ Strip(Str(row.narration)) = <<>>

\* AXISParser._process_row: <<>> for None, else the record
axis_process_row(row) ==
  LET particulars == Strip(Str(row.narration)) IN
    IF particulars = <<>> \/ Upper(particulars) \in {<<"N","A","N">>, <<"N","O","N","E">>} THEN <<>>
    ELSE << ProcessedRow(row, 0, format_date(Strip(Str(row.date))), particulars,
                         axis_amounts(row.amount, row.flag),
                         axis_parse_transaction_description(particulars)) >>

\* The test of the row loop of JanaParser.process_file
jana_row_skipped(row) == IsNa(row.narration)

\* JanaParser._process_row
jana_process_row(row) ==
  LET description == Strip(Str(row.narration)) IN
    << ProcessedRow(row, 0, format_date(Strip(Str(row.date))), description,
                    jana_amounts(row.amount, row.flag),
                    jana_parse_transaction_description(description)) >>

\* The test of the row loop of RBLParser.process_file
rbl_row_skipped(row) == IsNa(row.narration) \/ Strip(Str(row.narration)) = <<>>

\* RBLParser._process_row returns None: no date, or no details
rbl_row_dropped(row) ==
  LET transaction_details == Strip(Str(row.narration)) IN
    \/ format_date(Strip(Str(row.date))) = <<>>
    \/ transaction_details = <<>>
    \/ Upper(transaction_details) \in {<<"N","A","N">>, <<"N","O","N","E">>}

\* The record RBLParser._process_row returns once the narration is parsed; the
\* exception of parse_transaction_description passes through
rbl_record(row, sn, date, narration, amounts, parsed) ==
  IF parsed = UnboundLocalError THEN UnboundLocalError
  ELSE << ProcessedRow(row, sn, date, narration, amounts, parsed) >>

\* RBLParser._process_row: <<>> for None, else the record
rbl_process_row(sn, row) ==
  LET transaction_details == Strip(Str(row.narration)) IN
    IF rbl_row_dropped(row) THEN <<>>
    ELSE rbl_record(row, sn, format_date(Strip(Str(row.date))), transaction_details,
                    rbl_amounts(row.withdrawal, row.deposit),
                    rbl_parse_transaction_description(transaction_details))

\* The exception process_file ends with: AXIS, Jana and RBL wrap every exception
raised(b, exception) == IF b \in IciciBanks THEN exception ELSE "Exception"

\* ----------------------------------------------- process_file: the columns

\* A column of a sheet: its header text and the cell of a row that stands in it
\* ("other" for the columns whose cells no step reads)
Column(name, cell) == [name |-> name, cell |-> cell]

\* The ICICI sheets are read without their header row: ten columns in the
\* yearly statement, nine in the monthly one
IciciYearlySheet ==
  << Column(<<>>, "other"), Column(<<>>, "other"), Column(<<>>, "other"),
     Column(<<>>, "date"), Column(<<>>, "other"), Column(<<>>, "other"),
     Column(<<>>, "narration"), Column(<<>>, "withdrawal"),
     Column(<<>>, "deposit"), Column(<<>>, "other") >>

IciciMonthlySheet ==
  << Column(<<>>, "other"), Column(<<>>, "other"), Column(<<>>, "date"),
     Column(<<>>, "other"), Column(<<>>, "other"), Column(<<>>, "narration"),
     Column(<<>>, "flag"), Column(<<>>, "amount"), Column(<<>>, "other") >>

ICICI_YEARLY_COLUMNS ==
  << "S.N.", "Tran. Id", "Value Date", "Transaction Date",
     "Transaction Posted Date and time", "Cheque. No./Ref. No.",
     "Transaction Remarks", "Withdrawal Amt (INR)", "Deposit Amt (INR)",
     "Balance (INR)" >>

ICICI_MONTHLY_COLUMNS ==
  << "No.", "Transaction ID", "Value Date", "Txn Posted Date", "ChequeNo.",
     "Description", "Cr/Dr", "Transaction Amount(INR)", "Available Balance(INR)" >>

\* self.columns of ICICIParser
self_columns(b) ==
  IF b = "ICICI Monthly" THEN ICICI_MONTHLY_COLUMNS ELSE ICICI_YEARLY_COLUMNS

\* A plausible slip: only a sheet with too few columns is refused
column_count_at_least(b, sheet_columns) == Len(sheet_columns) >= Len(self_columns(b))

\* len(df.columns) == len(self.columns)
column_count_expected(b, sheet_columns) == Len(sheet_columns) = Len(self_columns(b))

\* The sheet of a dialect that maps its columns by header text: the date, the
\* narration, and the two amount or amount-and-flag columns of the dialect
HeaderSheet(b, date_header, narration_header) ==
  CASE b = "AXIS" ->
         << Column(date_header, "date"), Column(narration_header, "narration"),
            Column(<<"A","m","o","u","n","t","(","I","N","R",")">>, "amount"), Column(<<"D","e","b","i","t","/","C","r","e","d","i","t">>, "flag") >>
    [] b = "Jana Bank" ->
         << Column(date_header, "date"), Column(narration_header, "narration"),
            Column(<<"D","r","/","C","r">>, "flag"), Column(<<"T","r","a","n","s","a","c","t","i","o","n"," ","A","m","o","u","n","t">>, "amount") >>
    [] b = "RBL Bank" ->
         << Column(date_header, "date"), Column(narration_header, "narration"),
            Column(<<"W","i","t","h","d","r","a","w","l"," ","A","m","t">>, "withdrawal"), Column(<<"D","e","p","o","s","i","t"," ","A","m","t">>, "deposit") >>

\* The header the bank gives its date column
DateHeader(b) == IF b = "AXIS" THEN <<"T","r","a","n"," ","D","a","t","e">> ELSE <<"T","r","a","n","s","a","c","t","i","o","n"," ","D","a","t","e">>

\* The header the bank gives its narration column
NarrationHeader(b) ==
  CASE b = "AXIS" -> <<"P","a","r","t","i","c","u","l","a","r","s">>
    [] b = "Jana Bank" -> <<"D","e","s","c","r","i","p","t","i","o","n">>
    [] b = "RBL Bank" -> <<"T","r","a","n","s","a","c","t","i","o","n"," ","D","e","t","a","i","l","s">>

\* The columns of the statement the bank issues
StandardColumns(b) ==
  CASE b = "ICICI Yearly" -> IciciYearlySheet
    [] b = "ICICI Monthly" -> IciciMonthlySheet
    [] OTHER -> HeaderSheet(b, DateHeader(b), NarrationHeader(b))

\* The columns a sheet uploaded for the dialect may have: those of the bank's
\* statement; for ICICI the sheet of the other ICICI dialect (one column more or
\* less); for AXIS, Jana and RBL a sheet whose narration column, or whose date
\* column, has a header no pattern and no fallback of a mapper matches
Layouts(b) ==
  IF b \in IciciBanks THEN {IciciYearlySheet, IciciMonthlySheet}
  ELSE { StandardColumns(b),
         HeaderSheet(b, DateHeader(b), <<"R","e","m","a","r","k","s">>),
         HeaderSheet(b, <<"P","o","s","t","e","d"," ","O","n">>, NarrationHeader(b)) }

\* df.columns
headers(sheet_columns) == [i \in 1..Len(sheet_columns) |-> sheet_columns[i].name]

\* required_columns of AXISParser.process_file and RBLParser.process_file
required_columns(b) ==
  CASE b = "AXIS" -> {"Particulars", "Transaction Date"}
    [] b = "RBL Bank" -> {"Transaction Details", "Transaction Date"}
    [] OTHER -> {}

\* missing_columns = [col for col in required_columns if col not in column_mapping]
missing_columns(b, mapping) == required_columns(b) \ DOMAIN mapping

\* row.get(column_mapping.get(role, '')): the cell in the column whose header
\* the role is mapped to; with no header mapped, row.get('') finds no cell
row_get(row, sheet_columns, mapping, role) ==
  IF role \notin DOMAIN mapping THEN NaN
  ELSE LET i == CHOOSE k \in 1..Len(sheet_columns) : sheet_columns[k].name = mapping[role]
       IN row[sheet_columns[i].cell]

\* The cells _process_row and the test of the row loop read from a row, each
\* through the mapping of its role
mapped_row(b, sheet_columns, mapping, row) ==
  LET cell(role) == row_get(row, sheet_columns, mapping, role) IN
    CASE b = "AXIS" ->
           [row EXCEPT !.date = cell("Transaction Date"),
                       !.narration = cell("Particulars"),
                       !.amount = cell("Amount(INR)"),
                       !.flag = cell("Debit/Credit")]
      [] b = "Jana Bank" ->
           [row EXCEPT !.date = cell("Transaction Date"),
                       !.narration = cell("Description"),
                       !.amount = cell("Transaction Amount"),
                       !.flag = cell("Dr/Cr")]
      [] b = "RBL Bank" ->
           [row EXCEPT !.date = cell("Transaction Date"),
                       !.narration = cell("Transaction Details"),
                       !.withdrawal = cell("Withdrawal Amt"),
                       !.deposit = cell("Deposit Amt")]
\* ------------------------------------------------ process_file: the steps

\* The most rows a sheet has
MaxRows == 3

functionVars == <<classifyVars, chequeVars, directionVars, cleanVars, moreVars>>

remarkVars == <<clg_cheque_numbers, rejected_cheque_numbers, remarks>>

\* A statement of one of the dialects is about to be uploaded
Init ==
  /\ pc = "upload"
  /\ bank \in Banks
  /\ columns = StandardColumns(bank) /\ column_mapping = <<>>
  /\ sheet = <<>> /\ raw = <<>> /\ df = <<>> /\ processed_data = <<>>
  /\ cursor = 0 /\ serial_number = 0
  /\ clg_cheque_numbers = {} /\ rejected_cheque_numbers = {} /\ remarks = <<>>
  /\ error = ""
  /\ ClassifyIdle /\ ChequeIdle /\ DirectionIdle /\ CleanIdle /\ MoreIdle

\* The sheet of the statement gets one more row
AddRow ==
  /\ pc = "upload"
  /\ Len(sheet) < MaxRows
  /\ \E row \in SheetRows(bank) : sheet' = Append(sheet, row)
  /\ UNCHANGED <<pc, bank, columns, column_mapping, raw, df, processed_data, cursor, serial_number,
                 remarkVars, error, functionVars>>

\* process_file raises
Fail(exception) ==
  /\ pc' = "failed"
  /\ error' = raised(bank, exception)

\* A plausible slip: the remarks computed before the REJECT rows are collected
pass_classify_before_reject(phase) ==
  CASE phase = "clg_pass" -> "classify_pass"
    [] phase = "classify_pass" -> "reject_pass"
    [] phase = "reject_pass" -> "done"

\* The order of the three loops of add_remark_column
pass_after(phase) ==
  CASE phase = "clg_pass" -> "reject_pass"
    [] phase = "reject_pass" -> "classify_pass"
    [] phase = "classify_pass" -> "done"

\* add_remark_column is called with the frame: its loops run over the rows, none
\* of them when the frame has no row (the Remark column is then empty)
EnterRemarks(frame) ==
  /\ df' = frame
  /\ pc' = IF Len(frame) = 0 THEN "done" ELSE "clg_pass"
  /\ cursor' = IF Len(frame) = 0 THEN 0 ELSE 1

\* ICICIParser.process_file: read, clean, the column count checked (ValueError
\* when it is not the expected one), "-" to "/" in the narration, dates
IciciRead ==
  /\ pc = "upload"
  /\ bank \in IciciBanks
  /\ raw' = clean_dataframe(read_excel_file(sheet))
  /\ IF column_count_expected(bank, columns)
     THEN /\ df' = [i \in 1..Len(raw') |->
                     [raw'[i] EXCEPT !.narration = Replace(Str(@), <<"-">>, <<"/">>),
                                     !.date = format_date(@)]]
          /\ pc' = "icici_direction"
          /\ UNCHANGED error
     ELSE Fail("ValueError") /\ UNCHANGED df
  /\ UNCHANGED <<bank, columns, column_mapping, sheet, processed_data, cursor,
                 serial_number, remarkVars, functionVars>>

\* ICICIParser.process_file: the Debit/Credit column
IciciDirection ==
  /\ pc = "icici_direction"
  /\ df' = [i \in 1..Len(df) |->
              [df[i] EXCEPT !.direction =
                 IF bank = "ICICI Monthly"
                 THEN determine_debit_credit_from_cr_dr(df[i].flag)
                 ELSE determine_debit_credit(df[i].withdrawal, df[i].deposit)]]
  /\ pc' = "icici_parse"
  /\ UNCHANGED <<bank, columns, column_mapping, sheet, raw, processed_data, cursor, serial_number,
                 remarkVars, error, functionVars>>

\* df[["Payment Category", "Party Name1", "Party Name2"]] = ..., for one row
WithParsed(row, parsed) ==
  [row EXCEPT !.category = parsed[1], !.party1 = parsed[2], !.party2 = parsed[3]]

\* df[["Withdrawal Amt (INR)", "Deposit Amt (INR)"]] = ..., for one row
WithAmounts(row, amounts) ==
  [row EXCEPT !.withdrawal = amounts[1], !.deposit = amounts[2]]

\* ICICIParser.process_file: the Payment Category and Party Name columns
IciciParse ==
  /\ pc = "icici_parse"
  /\ df' = [i \in 1..Len(df) |->
              WithParsed(df[i], icici_parse_transaction_description(df[i].narration))]
  /\ pc' = "icici_cash"
  /\ UNCHANGED <<bank, columns, column_mapping, sheet, raw, processed_data, cursor, serial_number,
                 remarkVars, error, functionVars>>

\* ICICIParser.process_file: the cash correction; the yearly dialect then calls
\* add_remark_column
IciciCash ==
  /\ pc = "icici_cash"
  /\ LET corrected == [i \in 1..Len(df) |->
           [df[i] EXCEPT !.category = cash_correction(@, df[i].direction)]]
     IN IF bank = "ICICI Monthly"
        THEN df' = corrected /\ pc' = "icici_amounts" /\ UNCHANGED cursor
        ELSE EnterRemarks(corrected)
  /\ UNCHANGED <<bank, columns, column_mapping, sheet, raw, processed_data, serial_number, remarkVars,
                 error, functionVars>>

\* ICICIParser.process_file, monthly: the Withdrawal and Deposit columns, then
\* add_remark_column is called
IciciMonthlyAmounts ==
  /\ pc = "icici_amounts"
  /\ EnterRemarks([i \in 1..Len(df) |->
       WithAmounts(df[i], icici_get_withdrawal_deposit_monthly(df[i].amount,
                                                               df[i].direction))])
  /\ UNCHANGED <<bank, columns, column_mapping, sheet, raw, processed_data, serial_number, remarkVars,
                 error, functionVars>>

\* AXISParser.process_file up to the row loop: an empty frame is an error (the
\* second search for the header finds the same rows), OPENING BALANCE rows go,
\* the columns are mapped and a required role without a header is an error
AxisRead ==
  /\ pc = "upload"
  /\ bank = "AXIS"
  /\ LET cleaned == clean_dataframe(read_excel_file(sheet)) IN
       /\ raw' = SelectSeq(cleaned, LAMBDA r : ~has_opening_balance(r))
       /\ column_mapping' = IF cleaned = <<>> THEN column_mapping
                            ELSE map_columns(bank, headers(columns))
       /\ IF raw' = <<>> \/ missing_columns(bank, column_mapping') # {}
          THEN Fail("ValueError") /\ UNCHANGED cursor
          ELSE pc' = "axis_rows" /\ cursor' = 1 /\ UNCHANGED error
  /\ UNCHANGED <<bank, columns, sheet, df, processed_data, serial_number, remarkVars,
                 functionVars>>

\* One turn of the row loop of AXISParser.process_file; after the last one the
\* frame is built and add_remark_column called, or the file is found empty
AxisRow ==
  /\ pc = "axis_rows"
  /\ LET row == mapped_row(bank, columns, column_mapping, raw[cursor])
         emitted == IF axis_row_skipped(row) THEN <<>> ELSE axis_process_row(row)
     IN /\ processed_data' = processed_data \o emitted
        /\ IF cursor < Len(raw)
           THEN cursor' = cursor + 1 /\ UNCHANGED <<pc, df, error>>
           ELSE IF processed_data' = <<>>
             THEN Fail("ValueError") /\ UNCHANGED <<cursor, df>>
             ELSE EnterRemarks(DataFrame(processed_data')) /\ UNCHANGED error
  /\ UNCHANGED <<bank, columns, column_mapping, sheet, raw, serial_number, remarkVars, functionVars>>

\* JanaParser.process_file up to the row loop: the columns are mapped, and no
\* role is required to have a header; with no row to loop over the
\* frame has no column and add_remark_column returns at once
JanaRead ==
  /\ pc = "upload"
  /\ bank = "Jana Bank"
  /\ raw' = clean_dataframe(read_excel_file(sheet))
  /\ column_mapping' = map_columns(bank, headers(columns))
  /\ IF raw' = <<>> THEN pc' = "done" /\ UNCHANGED cursor
                    ELSE pc' = "jana_rows" /\ cursor' = 1
  /\ UNCHANGED <<bank, columns, sheet, df, processed_data, serial_number, remarkVars,
                 error, functionVars>>

\* One turn of the row loop of JanaParser.process_file; after the last one the
\* frame is built and add_remark_column called
JanaRow ==
  /\ pc = "jana_rows"
  /\ LET row == mapped_row(bank, columns, column_mapping, raw[cursor])
         emitted == IF jana_row_skipped(row) THEN <<>> ELSE jana_process_row(row)
     IN /\ processed_data' = processed_data \o emitted
        /\ IF cursor < Len(raw)
           THEN cursor' = cursor + 1 /\ UNCHANGED <<pc, df>>
           ELSE EnterRemarks(DataFrame(processed_data'))
  /\ UNCHANGED <<bank, columns, column_mapping, sheet, raw, serial_number, remarkVars, error, functionVars>>

\* RBLParser.process_file up to the row loop: an empty frame is an error, and so
\* is a required role without a header (the second reading finds the same
\* headers: the rows above the header row carry no header keyword)
RblRead ==
  /\ pc = "upload"
  /\ bank = "RBL Bank"
  /\ raw' = clean_dataframe(read_excel_file(sheet))
  /\ column_mapping' = IF raw' = <<>> THEN column_mapping
                       ELSE map_columns(bank, headers(columns))
  /\ IF raw' = <<>> \/ missing_columns(bank, column_mapping') # {}
     THEN Fail("ValueError") /\ UNCHANGED <<cursor, serial_number>>
     ELSE pc' = "rbl_rows" /\ cursor' = 1 /\ serial_number' = 1 /\ UNCHANGED error
  /\ UNCHANGED <<bank, columns, sheet, df, processed_data, remarkVars, functionVars>>

\* A plausible slip: the serial number advanced at every turn of the loop, for
\* the rows _process_row gives no record for as well
RblTurnCountingEveryRow(emitted) ==
  IF emitted = UnboundLocalError
  THEN /\ Fail("UnboundLocalError")
       /\ UNCHANGED <<processed_data, serial_number, cursor, df>>
  ELSE /\ processed_data' = processed_data \o emitted
       /\ serial_number' = serial_number + 1
       /\ IF cursor < Len(raw)
          THEN cursor' = cursor + 1 /\ UNCHANGED <<pc, df, error>>
          ELSE IF processed_data' = <<>>
            THEN Fail("ValueError") /\ UNCHANGED <<cursor, df>>
            ELSE EnterRemarks(DataFrame(processed_data')) /\ UNCHANGED error

\* What a turn of the row loop of RBLParser.process_file does with the outcome
\* of _process_row: the exception ends process_file, a record takes the serial
\* number; after the last turn the frame is built and add_remark_column called,
\* or the file is found empty
RblTurn(emitted) ==
  IF emitted = UnboundLocalError
  THEN /\ Fail("UnboundLocalError")
       /\ UNCHANGED <<processed_data, serial_number, cursor, df>>
  ELSE /\ processed_data' = processed_data \o emitted
       /\ serial_number' = serial_number + Len(emitted)
       /\ IF cursor < Len(raw)
          THEN cursor' = cursor + 1 /\ UNCHANGED <<pc, df, error>>
          ELSE IF processed_data' = <<>>
            THEN Fail("ValueError") /\ UNCHANGED <<cursor, df>>
            ELSE EnterRemarks(DataFrame(processed_data')) /\ UNCHANGED error

\* One turn of the row loop of RBLParser.process_file
RblRow ==
  /\ pc = "rbl_rows"
  /\ LET row == mapped_row(bank, columns, column_mapping, raw[cursor]) IN
       RblTurn(IF rbl_row_skipped(row) THEN <<>>
               ELSE rbl_process_row(serial_number, row))
  /\ UNCHANGED <<bank, columns, column_mapping, sheet, raw, remarkVars, functionVars>>

\* df[description_column].fillna("")
fillna(cell) == IF IsNa(cell) THEN <<>> ELSE cell

\* The turn of a loop of add_remark_column is over: on to the next row, or to the
\* next loop
NextRow(phase) ==
  IF cursor < Len(df) THEN cursor' = cursor + 1 /\ pc' = phase
                      ELSE cursor' = 1 /\ pc' = pass_after(phase)

\* clg_cheque_numbers[cheque_num] = i
clg_collect(clg_numbers, cheque_num, i) ==
  IF cheque_num # <<>>
  THEN {p \in clg_numbers : p[1] # cheque_num} \cup {<<cheque_num, i>>}
  ELSE clg_numbers

\* A plausible slip: every CLG number joins the set once a REJECT row is seen
reject_collect_every_clg(rejected, clg_numbers, cheque_num) ==
  IF cheque_num # <<>>
  THEN rejected \cup {cheque_num} \cup {p[1] : p \in clg_numbers}
  ELSE rejected

\* The body of the second loop: the number of a REJECT row joins the set, and
\* once more when a CLG row has it
reject_collect(rejected, clg_numbers, cheque_num) ==
  IF cheque_num # <<>>
  THEN rejected \cup {cheque_num}
         \cup (IF cheque_num \in {p[1] : p \in clg_numbers} THEN {cheque_num} ELSE {})
  ELSE rejected

\* add_remark_column, first loop: the cheque number of a CLG row
ClgCollect ==
  /\ pc = "clg_pass"
  /\ LET description == Str(fillna(df[cursor].narration))
         cheque_num == extract_cheque_number_from_clg(description)
     IN clg_cheque_numbers' = clg_collect(clg_cheque_numbers, cheque_num, cursor - 1)
  /\ NextRow("clg_pass")
  /\ UNCHANGED <<bank, columns, column_mapping, sheet, raw, df, processed_data, serial_number,
                 rejected_cheque_numbers, remarks, error, functionVars>>

\* add_remark_column, second loop: the cheque number of a REJECT row
RejectCollect ==
  /\ pc = "reject_pass"
  /\ LET description == Str(fillna(df[cursor].narration))
         cheque_num == extract_cheque_number_from_reject(description)
     IN rejected_cheque_numbers' =
          reject_collect(rejected_cheque_numbers, clg_cheque_numbers, cheque_num)
  /\ NextRow("reject_pass")
  /\ UNCHANGED <<bank, columns, column_mapping, sheet, raw, df, processed_data, serial_number,
                 clg_cheque_numbers, remarks, error, functionVars>>

\* The rows df.at[i, ...] finds: those whose label is i (none: KeyError)
at(frame, i) == {k \in 1..Len(frame) : frame[k].label = i}

\* add_remark_column, third loop: the remark of the row at position cursor, with
\* the category read under the label cursor - 1; after the last turn the remarks
\* become the Remark column
ClassifyRow ==
  /\ pc = "classify_pass"
  /\ LET description == Str(fillna(df[cursor].narration))
         found == at(df, cursor - 1)
     IN IF found = {}
        THEN /\ Fail("KeyError")
             /\ UNCHANGED <<remarks, df, cursor>>
        ELSE LET payment_cat == Str(df[CHOOSE k \in found : TRUE].category)
                 remark == classify_transaction_remark(description, payment_cat,
                                                       rejected_cheque_numbers)
             IN /\ remarks' = Append(remarks, remark)
                /\ NextRow("classify_pass")
                /\ df' = IF cursor < Len(df) THEN df
                         ELSE [i \in 1..Len(df) |-> [df[i] EXCEPT !.remark = remarks'[i]]]
                /\ UNCHANGED error
  /\ UNCHANGED <<bank, columns, column_mapping, sheet, raw, processed_data, serial_number,
                 clg_cheque_numbers, rejected_cheque_numbers, functionVars>>

Next ==
  \/ AddRow
  \/ IciciRead \/ IciciDirection \/ IciciParse \/ IciciCash \/ IciciMonthlyAmounts
  \/ AxisRead \/ AxisRow
  \/ JanaRead \/ JanaRow
  \/ RblRead \/ RblRow
  \/ ClgCollect \/ RejectCollect \/ ClassifyRow

Spec == Init /\ [][Next]_vars

\* A sheet is about to be uploaded for one of the dialects, with the columns of
\* the bank's statement or with other columns
LayoutInit ==
  /\ pc = "upload"
  /\ bank \in Banks
  /\ columns \in Layouts(bank) /\ column_mapping = <<>>
  /\ sheet = <<>> /\ raw = <<>> /\ df = <<>> /\ processed_data = <<>>
  /\ cursor = 0 /\ serial_number = 0
  /\ clg_cheque_numbers = {} /\ rejected_cheque_numbers = {} /\ remarks = <<>>
  /\ error = ""
  /\ ClassifyIdle /\ ChequeIdle /\ DirectionIdle /\ CleanIdle /\ MoreIdle

SpecLayout == LayoutInit /\ [][Next]_vars

\* ------------------------------- process_file on a sheet of one ICICI row

\* Number of tokens a narration has after its transaction type
MaxTokens == 3

\* The transaction types of _parse_standard_transaction, as the bank writes them
StandardTypes == {<<"N","E","F","T">>, <<"r","t","g","s">>}

\* The tokens: bank codes, reference codes, names, boilerplate
NarrationTokens ==
  {<<"A","B","C","D","0","0","0","1","2","3","4">>, <<"R","E","F","9","9","8","8","7","7">>, <<"G","R","E","E","N"," ","V","A","L","L","E","Y"," ","T","R","A","D","E","R","S">>, <<"R","A","V","I"," ","K","U","M","A","R"," ","A">>, <<"H","D","F","C"," ","B","A","N","K">>}

\* The amount cells of the row: <<withdrawal, deposit>>
ScenarioAmounts == { <<<<"0">>, <<"1","5",",","0","0","0",".","0","0">>>>, <<<<"2","5","0",".","0","0">>, NaN>> }

\* '/'.join(parts)
RECURSIVE JoinSlash(_)
JoinSlash(parts) ==
  IF parts = <<>> THEN <<>>
  ELSE IF Len(parts) = 1 THEN parts[1]
  ELSE parts[1] \o <<"/">> \o JoinSlash(Tail(parts))

\* An ICICI yearly statement whose one row is about to be written
ScenarioInit ==
  /\ pc = "pt_build"
  /\ bank = "ICICI Yearly"
  /\ columns = IciciYearlySheet /\ column_mapping = <<>>
  /\ sheet = <<>> /\ raw = <<>> /\ df = <<>> /\ processed_data = <<>>
  /\ cursor = 0 /\ serial_number = 0
  /\ clg_cheque_numbers = {} /\ rejected_cheque_numbers = {} /\ remarks = <<>>
  /\ error = ""
  /\ ClassifyIdle /\ ChequeIdle /\ DirectionIdle /\ CleanIdle /\ MoreIdle

\* The bank writes the transaction type, then one more token of the narration
PtAddToken ==
  /\ pc = "pt_build"
  /\ Len(pt_parts) < MaxTokens + 1
  /\ \E t \in (IF pt_parts = <<>> THEN StandardTypes ELSE NarrationTokens) :
       pt_parts' = Append(pt_parts, t)
  /\ UNCHANGED <<pc, fileVars, classifyVars, chequeVars, directionVars, cleanVars,
                 validVars, amountVars, columnsVars, parseVars>>

\* The statement is uploaded: its sheet has the one row
PtUpload ==
  /\ pc = "pt_build"
  /\ Len(pt_parts) >= 2
  /\ \E a \in ScenarioAmounts :
       sheet' = << SheetRow(<<"0","5","/","0","4","/","2","0","2","4">>, JoinSlash(pt_parts), a[1], a[2], NaN, NaN) >>
  /\ pc' = "upload"
  /\ UNCHANGED <<bank, columns, column_mapping, raw, df, processed_data, cursor, serial_number, remarkVars,
                 error, functionVars>>

ScenarioNext ==
  \/ PtAddToken \/ PtUpload
  \/ IciciRead \/ IciciDirection \/ IciciParse \/ IciciCash
  \/ ClgCollect \/ RejectCollect \/ ClassifyRow

SpecScenario == ScenarioInit /\ [][ScenarioNext]_vars
\* ------------------------------- parse_transaction_description on its own

\* Number of tokens a narration has after its leading tag
MaxParts == 3

\* The parsers: the two ICICI layouts share ICICIParser
Parsers == {"ICICI", "AXIS", "Jana Bank", "RBL Bank"}

\* The leading tags: tags of PAYMENT_CATEGORY_MAP, tags outside it, a cash tag
\* and tags of returned cheques
LeadingTags == {<<"N","E","F","T">>, <<"C","L","G">>, <<"M","M","T">>, <<"I","N","F">>, <<"U","P","I">>, <<"C","A","S","H">>, <<"R","E","J","E","C","T">>, <<"R","e","j","e","c","t",":","1","2">>}

\* The tokens after the tag: a sub-type, a reference, a name that cleaning
\* shortens, two halves of a name that are no names on their own, a bank
PartTokens == {<<"N","E","F","T">>, <<"0","0","0","1","2","3">>, <<"R","A","V","I"," ","K","U","M","A","R"," ","A">>, <<"A","B">>, <<"C","D">>, <<"H","D","F","C"," ","B","A","N","K">>}

\* The narration the tokens make
narration_of(parts) == JoinSlash(parts)

\* parse_transaction_description of the parser of a dialect
parse_transaction_description(b, description) ==
  CASE b = "ICICI" -> icici_parse_transaction_description(description)
    [] b = "AXIS" -> axis_parse_transaction_description(description)
    [] b = "Jana Bank" -> jana_parse_transaction_description(description)
    [] b = "RBL Bank" -> rbl_parse_transaction_description(description)

\* A parser is about to be given a narration
ParseInit ==
  /\ pc = "pa_build"
  /\ pa_bank \in Parsers /\ pa_parts = <<>> /\ pa_parsed = None
  /\ ClassifyIdle /\ ChequeIdle /\ DirectionIdle /\ CleanIdle
  /\ FileIdle /\ ValidIdle /\ AmountIdle /\ pt_parts = <<>> /\ ColumnsIdle

\* The bank writes the leading tag, then one more token of the narration
PaAddPart ==
  /\ pc = "pa_build"
  /\ Len(pa_parts) < MaxParts + 1
  /\ \E t \in (IF pa_parts = <<>> THEN LeadingTags ELSE PartTokens) :
       pa_parts' = Append(pa_parts, t)
  /\ UNCHANGED <<pc, pa_bank, pa_parsed, classifyVars, chequeVars, directionVars, cleanVars,
                 fileVars, validVars, amountVars, pt_parts, columnsVars>>

\* The parser is called on the narration
PaParse ==
  /\ pc = "pa_build"
  /\ pa_parsed' = parse_transaction_description(pa_bank, narration_of(pa_parts))
  /\ pc' = "pa_done"
  /\ UNCHANGED <<pa_bank, pa_parts, classifyVars, chequeVars, directionVars, cleanVars,
                 fileVars, validVars, amountVars, pt_parts, columnsVars>>

ParseNext == PaAddPart \/ PaParse

SpecParse == ParseInit /\ [][ParseNext]_vars

\* ---------------------------------------------------------------- claims

\* The trigger of rule 1 (Cheque Reject) on the normalized narration and category
TriggerChequeReject(d, c, rejected) ==
  \/ Contains(d, <<"R","E","J","E","C","T">>) \/ Contains(c, <<"R","E","J","E","C","T">>)
  \/ (rejected # {} /\ StartsWith(d, <<"C","L","G","/">>) /\ extract_cheque_number_from_clg(d) \in rejected)

\* The trigger of rule 2 (Collections)
TriggerCollections(d, c) ==
  \/ Contains(d, <<"U","P","I">>) \/ Contains(c, <<"U","P","I">>)
  \/ StartsWith(d, <<"B","Y"," ","C","A","S","H">>)
  \/ (StartsWith(d, <<"C","A","M","/">>) /\ Contains(d, <<"C","A","S","H"," ","D","E","P">>))
  \/ StartsWith(d, <<"C","M","S","/">>)

\* The trigger of rule 3 (Expense)
TriggerExpense(d) ==
  \/ Contains(d, <<"G","I","B">>)
  \/ StartsWith(d, <<"A","C","H","/">>)
  \/ (Contains(d, <<"B","I","L">>) /\ Contains(d, <<"O","N","L">>))
  \/ StartsWith(d, <<"E","Z","Y","/">>)
  \/ WordsSpaced(d, <<"C","H","Q">>, <<"R","T","N">>, <<"C","H","G">>)
  \/ WordsSpaced(d, <<"C","H","Q">>, <<"R","E","T","U","R","N">>, <<"C","H","G">>)
  \/ WordsSpaced(d, <<"C","H","E","Q","U","E">>, <<"R","E","T","U","R","N">>, <<"C","H","G">>)

\* The trigger of rule 4 (Supplier Payment), with the re-check the source makes
TriggerSupplierPayment(d) ==
  \/ Contains(d, <<"D","D","/","C","C"," ","I","S","S","U","E","D">>) \/ Contains(d, <<"D","D"," ","I","S","S","U","E","D">>)
  \/ (ContainsAny(d, supplier_keywords) /\ ~supplier_recheck(d))

\* The tag of the first rule, in the order Cheque Reject > Collections > Expense >
\* Supplier Payment > NA, whose trigger matches
FirstMatchingTag(d, c, rejected) ==
  IF TriggerChequeReject(d, c, rejected) THEN "Cheque Reject"
  ELSE IF TriggerCollections(d, c) THEN "Collections"
  ELSE IF TriggerExpense(d) THEN "Expense"
  ELSE IF TriggerSupplierPayment(d) THEN "Supplier Payment"
  ELSE "NA"

Zeros(n) == [i \in 1..n |-> "0"]

\* C5 (as stated): every non-empty cheque number extracted from a CLG or REJECT
\* narration is a string of exactly 6 digits, for digit runs of every length.
C5_ExactlySixDigits ==
  (pc = "ch_done" /\ ch_number # <<>>) =>
     (Len(ch_number) = ChequeWidth /\ IsAllDigits(ch_number))

\* C5 (amended): the number extracted is the digit run itself, left-padded with
\* zeros when it is shorter than 6; a run of 6 digits or more is returned
\* unchanged, so the number has max(6, length of the run) digits.
C5_PaddedNeverTruncated ==
  (pc = "ch_done" /\ ch_run # <<>>) =>
     /\ IsAllDigits(ch_number)
     /\ ch_number = (IF Len(ch_run) < ChequeWidth
                     THEN Zeros(ChequeWidth - Len(ch_run)) \o ch_run
                     ELSE ch_run)

\* C5 witness: a 4-digit run of a REJECT narration came out with two zeros in front
C5_Witness ==
  /\ pc = "ch_done"
  /\ Len(ch_run) = 4
  /\ Contains(Upper(ch_narration), <<"R","E","J","E","C","T">>)
  /\ ch_number = <<"0","0">> \o ch_run

\* C9 (as stated): determine_debit_credit returns Credit exactly when the cleaned
\* deposit is present and numerically non-zero, otherwise Debit exactly when the
\* cleaned withdrawal is present and numerically non-zero, otherwise "" ; every
\* textual form of zero ("0", "0.0", "0.00", blank) counts as zero.
C9_NumericZero ==
  pc = "dc_done" =>
     LET withdrawal_clean == clean_amount(dc_withdrawal)
         deposit_clean == clean_amount(dc_deposit)
     IN dc_direction =
          (IF ~IsNumericZero(deposit_clean) THEN "Credit"
           ELSE IF ~IsNumericZero(withdrawal_clean) THEN "Debit"
           ELSE "")

\* C10 (as stated): clean_party_name applied to its own result changes nothing.
C10_Idempotent == pc = "cp_twice" => cp_twice = cp_once

\* ------------------------------------------------ claims on process_file

\* The pc values of add_remark_column and of its return
RemarkPhases == {"clg_pass", "reject_pass", "classify_pass", "done"}

\* The narration add_remark_column reads from row i of the frame
DescriptionOf(i) == Str(fillna(df[i].narration))

\* The padded cheque number of row i as a CLG row, "" when it is none
ClgNumberOf(i) == extract_cheque_number_from_clg(DescriptionOf(i))

\* The padded cheque number of row i as a REJECT row, "" when it is none
RejectNumberOf(i) == extract_cheque_number_from_reject(DescriptionOf(i))

\* Neither the narration nor the category of row i contains REJECT
NoRejectWord(i) ==
  /\ ~Contains(normalize_narration(DescriptionOf(i)), <<"R","E","J","E","C","T">>)
  /\ ~Contains(normalize_narration(Str(df[i].category)), <<"R","E","J","E","C","T">>)

\* The category the dialect's parse_transaction_description assigns to a narration
AssignedCategory(b, narration) ==
  CASE b \in IciciBanks -> icici_parse_transaction_description(narration)[1]
    [] b = "AXIS" -> axis_parse_transaction_description(narration)[1]
    [] b = "Jana Bank" -> jana_parse_transaction_description(narration)[1]
    [] b = "RBL Bank" -> rbl_parse_transaction_description(narration)[1]

\* An amount cell holds no amount or the number zero
IsZeroAmount(cell) == IsNumericZero(clean_amount(cell))

\* C2 (as stated): in every table with a CLG row whose number pads to N and a
\* separate REJECT row with the same number, add_remark_column gives the CLG row
\* the remark Cheque Reject, whichever of the two rows comes first.
C2_ChequeRejectInEveryOrder ==
  \A i, j \in 1..Len(df) :
    ( /\ pc = "done" \/ error = "KeyError"
      /\ i # j
      /\ ClgNumberOf(i) # <<>>
      /\ RejectNumberOf(j) = ClgNumberOf(i) )
    => (pc = "done" /\ df[i].remark = "Cheque Reject")

\* No remark has been computed and none is in the frame
NoRemarkYet ==
  /\ remarks = <<>>
  /\ \A i \in 1..Len(df) : df[i].remark = "None"

\* The category a row ends with, from the category its parser assigned and its
\* direction (the rule of the cash correction)
CorrectedCategory(assigned, direction) ==
  IF Contains(Upper(assigned), <<"C","A","S","H">>) /\ direction = "Credit" THEN <<"C","A","S","H"," ","D","E","P","O","S","I","T">>
  ELSE IF Contains(Upper(assigned), <<"C","A","S","H">>) /\ direction = "Debit" THEN <<"C","A","S","H"," ","W","I","T","H","D","R","A","W","A","L">>
  ELSE assigned

\* Row i is parsed: its direction is determined, its category assigned, and the
\* cash correction has nothing left to change
RowParsed(i) ==
  /\ df[i].direction \in {"Credit", "Debit", ""}
  /\ df[i].category # None
  /\ df[i].party1 # None /\ df[i].party2 # None
  /\ df[i].category = CorrectedCategory(df[i].category, df[i].direction)

\* The padded numbers of all the REJECT narrations of the frame
RejectNumbersOfFrame == {RejectNumberOf(j) : j \in 1..Len(df)} \ {<<>>}

\* C3: add_remark_column runs only on a frame all of whose rows are parsed
\* (direction, category and cash correction final; every record of the row loop in
\* the frame); while the CLG and REJECT passes run, and before, no remark exists;
\* and from the first remark on the rejected set holds the numbers of all the
\* REJECT rows of the frame.
C3_RemarksAfterParsingAndIndexing ==
  /\ pc \in RemarkPhases =>
       /\ \A i \in 1..Len(df) : RowParsed(i)
       /\ bank \notin IciciBanks => Len(df) = Len(processed_data)
  /\ pc \notin {"classify_pass", "done", "failed"} => NoRemarkYet
  /\ pc \notin RemarkPhases \cup {"failed"} =>
       clg_cheque_numbers = {} /\ rejected_cheque_numbers = {}
  /\ (pc = "classify_pass" \/ remarks # <<>>) =>
       rejected_cheque_numbers = RejectNumbersOfFrame

\* C3 witness: the first remark of a three-row frame has just been computed, the
\* REJECT row is the last row, and its number was in the set already
C3_Witness ==
  /\ pc = "classify_pass"
  /\ Len(df) = 3
  /\ Len(remarks) = 1
  /\ RejectNumberOf(3) # <<>>
  /\ RejectNumberOf(3) \in rejected_cheque_numbers

\* C4: every member of the rejected set is the padded number of some REJECT
\* narration of the frame; so a CLG row without REJECT in its narration and
\* category has the remark Cheque Reject only when some REJECT row of the frame
\* has the same padded number.
C4_RejectedNumbersComeFromRejectRows ==
  /\ \A n \in rejected_cheque_numbers :
       \E j \in 1..Len(df) : RejectNumberOf(j) = n
  /\ \A i \in 1..Len(remarks) :
       (remarks[i] = "Cheque Reject" /\ ClgNumberOf(i) # <<>> /\ NoRejectWord(i)) =>
          \E j \in 1..Len(df) : j # i /\ RejectNumberOf(j) = ClgNumberOf(i)

\* C4 witness: of two CLG rows of a finished frame, the one whose number a REJECT
\* row carries is tagged Cheque Reject and the other, whose number no REJECT row
\* carries, is not
C4_Witness ==
  /\ pc = "done"
  /\ \E i, k \in 1..Len(df) :
       /\ ClgNumberOf(i) # <<>> /\ NoRejectWord(i)
       /\ df[i].remark = "Cheque Reject"
       /\ ClgNumberOf(k) # <<>>
       /\ ClgNumberOf(k) \notin rejected_cheque_numbers
       /\ df[k].remark # "Cheque Reject"

\* C6 (as stated): in every record a dialect emits, Party Name1 and Party Name2
\* are both empty or both non-empty.
C6_PartyNamesPaired ==
  pc \in RemarkPhases =>
    \A i \in 1..Len(df) : (df[i].party1 = <<>>) <=> (df[i].party2 = <<>>)

\* C7 (as stated): every emitted row whose category contains CASH has exactly the
\* category CASH DEPOSIT (Credit) or CASH WITHDRAWAL (Debit), never another
\* cash label.
C7_OnlyTheTwoCashCategories ==
  pc \in RemarkPhases =>
    \A i \in 1..Len(df) :
      Contains(Upper(df[i].category), <<"C","A","S","H">>) =>
        /\ df[i].category \in {<<"C","A","S","H"," ","D","E","P","O","S","I","T">>, <<"C","A","S","H"," ","W","I","T","H","D","R","A","W","A","L">>}
        /\ df[i].direction = "Credit" => df[i].category = <<"C","A","S","H"," ","D","E","P","O","S","I","T">>
        /\ df[i].direction = "Debit" => df[i].category = <<"C","A","S","H"," ","W","I","T","H","D","R","A","W","A","L">>

\* C7 (amended): an emitted row whose assigned category contains CASH has the
\* category CASH DEPOSIT when its direction is Credit and CASH WITHDRAWAL when it
\* is Debit; when its direction is unknown it keeps the category its parser
\* assigned, which can be a raw label such as CASH DEP.
C7_CashFollowsKnownDirection ==
  pc = "done" =>
    \A i \in 1..Len(df) :
      LET assigned == AssignedCategory(bank, df[i].narration) IN
        Contains(Upper(assigned), <<"C","A","S","H">>) =>
          /\ df[i].direction = "Credit" => df[i].category = <<"C","A","S","H"," ","D","E","P","O","S","I","T">>
          /\ df[i].direction = "Debit" => df[i].category = <<"C","A","S","H"," ","W","I","T","H","D","R","A","W","A","L">>
          /\ df[i].direction = "" => df[i].category = assigned

\* C7 witness: a Debit row whose parser assigned CASH DEPOSIT was emitted as
\* CASH WITHDRAWAL
C7_Witness ==
  /\ pc = "done"
  /\ \E i \in 1..Len(df) :
       /\ AssignedCategory(bank, df[i].narration) = <<"C","A","S","H"," ","D","E","P","O","S","I","T">>
       /\ df[i].direction = "Debit"
       /\ df[i].category = <<"C","A","S","H"," ","W","I","T","H","D","R","A","W","A","L">>

\* C8 (as stated): in every emitted record whose direction is Credit the deposit
\* is non-zero and the withdrawal zero, and in every one whose direction is Debit
\* the withdrawal is non-zero and the deposit zero.
C8_ExactlyOneAmount ==
  pc \in RemarkPhases =>
    \A i \in 1..Len(df) :
      /\ df[i].direction = "Credit" =>
           ~IsZeroAmount(df[i].deposit) /\ IsZeroAmount(df[i].withdrawal)
      /\ df[i].direction = "Debit" =>
           ~IsZeroAmount(df[i].withdrawal) /\ IsZeroAmount(df[i].deposit)

\* ------------------------------------------------ claims C11 .. C20

\* C11: is_valid_party_name is false for every transaction-type code in any
\* letter case, for every all-digit text and for every text of 3 characters or
\* fewer; and it is true only for texts of 4 characters or more with a letter.
C11_RefusesCodesDigitsShort ==
  pc = "vn_done" =>
    /\ Upper(vn_name) \in TRANSACTION_TYPES => ~vn_valid
    /\ IsAllDigits(vn_name) => ~vn_valid
    /\ Len(vn_name) <= 3 => ~vn_valid
    /\ vn_valid => (Len(vn_name) >= 4 /\ \E i \in 1..Len(vn_name) : IsAlpha(vn_name[i]))

\* C11 witness: a transaction type written in lower or mixed case, four letters
\* long, was refused
C11_Witness ==
  /\ pc = "vn_done"
  /\ Len(vn_name) = 4
  /\ vn_name \notin TRANSACTION_TYPES
  /\ Upper(vn_name) \in TRANSACTION_TYPES
  /\ ~vn_valid

\* C12: clean_amount never returns the empty text: it returns the digits and
\* dots of its input, in their order, and "0" when the input is blank or has
\* none; "" gives "0" and "1,23,456.50" gives "123456.50".
C12_NeverEmpty ==
  pc = "ca_done" =>
    LET kept == SelectSeq(ca_text, LAMBDA c : c \in Digits \cup {"."}) IN
      /\ ca_cleaned # <<>>
      /\ ca_cleaned = IF kept = <<>> THEN <<"0">> ELSE kept
      /\ ca_text = <<>> => ca_cleaned = <<"0">>
      /\ ca_text = <<"1",",","2","3",",","4","5","6",".","5","0">> => ca_cleaned = <<"1","2","3","4","5","6",".","5","0">>

\* C12 witness: a text that is not blank and has neither digit nor dot gave "0"
C12_Witness ==
  /\ pc = "ca_done"
  /\ Strip(ca_text) # <<>>
  /\ \A i \in 1..Len(ca_text) : ca_text[i] \notin Digits \cup {"."}
  /\ ca_cleaned = <<"0">>

\* C13 (as stated): for every narration that contains UPI,
\* classify_transaction_remark returns Collections for every payment category and
\* every rejected-cheque set.
C13_UpiAlwaysCollections ==
  (pc = "cl_done" /\ Contains(Upper(cl_description), <<"U","P","I">>)) =>
     cl_remark = "Collections"

\* C13 (amended): for a narration that contains UPI the remark is Collections,
\* also with a supplier keyword elsewhere in the narration, unless rule 1 applies:
\* the narration or the payment category contains REJECT, or the narration is a CLG
\* entry whose cheque number is in the rejected set. In particular
\* "UPI/johndoe@bank/TRANSFER/1234567890" gives Collections for every rejected set
\* and every category without REJECT.
C13_UpiCollectionsUnlessReject ==
  (pc = "cl_done" /\ Contains(Upper(cl_description), <<"U","P","I">>)) =>
     LET d == Strip(Upper(cl_description))
         rule1 == TriggerChequeReject(d, Strip(Upper(cl_category)), cl_rejected)
     IN cl_remark = IF rule1 THEN "Cheque Reject" ELSE "Collections"

\* C13 witness: the UPI narration of the scenario with a supplier keyword after
\* it, a non-empty rejected set, and the remark Collections
C13_Witness ==
  /\ pc = "cl_done"
  /\ cl_description = <<"U","P","I","/","j","o","h","n","d","o","e","@","b","a","n","k","/","T","R","A","N","S","F","E","R","/","1","2","3","4","5","6","7","8","9","0">> \o <<" ","L","I","M","I","T","E","D">>
  /\ cl_rejected # {}
  /\ cl_remark = "Collections"

\* The first token after the transaction type that passes is_valid_party_name and
\* contains no bank keyword, "" when there is none
FirstNameToken(parts) == FirstPart(parts, 2, Len(parts), party_ok)

\* A name the repair of parse_transaction_description leaves alone
SoundName(name) == ~looks_like_reference_code(name) /\ is_valid_party_name(name)

RowFields(record) ==
  <<record.party1, record.party2, record.category, record.direction>>

\* The records a row of an ICICI sheet gives when the steps of process_file are
\* applied to it alone
icici_row_alone(b, row) ==
  IF IsBlankRow(row) THEN <<>>
  ELSE LET narration == Replace(Str(row.narration), <<"-">>, <<"/">>)
           direction == IF b = "ICICI Monthly"
                        THEN determine_debit_credit_from_cr_dr(row.flag)
                        ELSE determine_debit_credit(row.withdrawal, row.deposit)
           parsed == icici_parse_transaction_description(narration)
       IN << [FrameRow(0, row) EXCEPT
                !.direction = direction,
                !.category = cash_correction(parsed[1], direction),
                !.party1 = parsed[2], !.party2 = parsed[3]] >>

\* The records a row gives when it is the only row the loop of its dialect sees:
\* none, one, or the exception of RBLParser.parse_transaction_description
row_alone(b, row) ==
  CASE b \in IciciBanks -> icici_row_alone(b, row)
    [] b = "AXIS" ->
         IF IsBlankRow(row) \/ has_opening_balance(row) \/ axis_row_skipped(row)
         THEN <<>> ELSE axis_process_row(FrameRow(0, row))
    [] b = "Jana Bank" ->
         IF IsBlankRow(row) \/ jana_row_skipped(row)
         THEN <<>> ELSE jana_process_row(FrameRow(0, row))
    [] b = "RBL Bank" ->
         IF IsBlankRow(row) \/ rbl_row_skipped(row)
         THEN <<>> ELSE rbl_process_row(0, FrameRow(0, row))

\* The fields the rows of a sheet give one by one, in sheet order
RECURSIVE fields_alone(_, _)
fields_alone(b, rows) ==
  IF rows = <<>> THEN <<>>
  ELSE LET records == row_alone(b, Head(rows)) IN
         [i \in 1..Len(records) |-> RowFields(records[i])]
           \o fields_alone(b, Tail(rows))

\* The fields of the table process_file returned, none when it raised
fields_returned ==
  IF pc = "done" THEN [i \in 1..Len(df) |-> RowFields(df[i])] ELSE <<>>

\* No row of the sheet raises by its own content, wherever it stands
NoRowRaisesAlone ==
  \A i \in 1..Len(sheet) : row_alone(bank, sheet[i]) # UnboundLocalError

\* C15 (as stated): for every sheet, in whatever order its rows stand, each row
\* is emitted with the party names, category and direction that the row alone
\* determines: when process_file has ended, the fields of the table are those of
\* the rows taken one by one, whatever stands before or after each row.
C15_RowFieldsInAnyOrder ==
  (pc \in {"done", "failed"} /\ NoRowRaisesAlone) =>
     fields_returned = fields_alone(bank, sheet)

\* C15, apart from the ICICI sheets with an empty row above a row with content
\* (for which add_remark_column raises KeyError, C28): the fields are row-local
C15_RowFieldsWhenLabelsMatch ==
  (pc \in {"done", "failed"} /\ NoRowRaisesAlone /\ error # "KeyError") =>
     fields_returned = fields_alone(bank, sheet)

\* The role table of the dialect's _map_columns
role_table(b) ==
  CASE b = "AXIS" -> AXIS_COLUMN_PATTERNS
    [] b = "Jana Bank" -> JANA_COLUMN_PATTERNS
    [] b = "RBL Bank" -> RblPatterns

\* The header matches a pattern of the k-th role of the table and, in the
\* dialects whose loop leaves the table at the first match (AXIS, Jana), of no
\* role before it
matches_role(b, col, k) ==
  LET col_lower == Strip(Lower(col)) IN
    IF b = "RBL Bank" THEN ContainsAny(col_lower, role_table(b)[k][2])
    ELSE first_role(role_table(b), col_lower) = k

\* For the k-th role of the table: when some header matches it, the role is
\* mapped to the first such header
first_match_wins(b, sheet_headers, mapping, k) ==
  LET hits == {i \in 1..Len(sheet_headers) : matches_role(b, sheet_headers[i], k)}
      standard_name == role_table(b)[k][1]
  IN hits # {} =>
       /\ standard_name \in DOMAIN mapping
       /\ mapping[standard_name] = sheet_headers[CHOOSE i \in hits : \A j \in hits : i <= j]

\* C19 (as stated): in the mapping _map_columns returns, of AXIS, Jana and RBL,
\* every role has the first header, left to right, that matches a pattern of the
\* role; a later header that matches too never replaces it.
C19_FirstMatchingHeaderWins ==
  pc = "mc_done" =>
    \A k \in 1..Len(role_table(mc_bank)) :
      first_match_wins(mc_bank, mc_columns, mc_mapping, k)

\* C19, for the mappers of AXIS and RBL alone: the first matching header wins
C19_FirstMatchingHeaderWinsAxisRbl ==
  (pc = "mc_done" /\ mc_bank # "Jana Bank") =>
    \A k \in 1..Len(role_table(mc_bank)) :
      first_match_wins(mc_bank, mc_columns, mc_mapping, k)

\* C20 (as stated): the mapping _map_columns returns, of AXIS, Jana and RBL, is
\* injective: no header is the value of two roles.
C20_MappingInjective ==
  pc = "mc_done" =>
    \A r1, r2 \in DOMAIN mc_mapping : mc_mapping[r1] = mc_mapping[r2] => r1 = r2

\* C20, for the mapper of Jana alone: no header is the value of two roles
C20_MappingInjectiveJana ==
  (pc = "mc_done" /\ mc_bank = "Jana Bank") =>
    \A r1, r2 \in DOMAIN mc_mapping : mc_mapping[r1] = mc_mapping[r2] => r1 = r2

\* The record has a narration and a transaction date
has_narration_and_date(record) ==
  /\ ~IsNa(record.narration) /\ Strip(record.narration) # <<>>
  /\ ~IsNa(record.date) /\ record.date # <<>>

\* C18 (as stated): in every dialect a row whose narration is missing or blank, or
\* whose transaction date is missing or no date, is left out of the table
\* process_file returns: every record of the table has a non-empty narration and
\* a non-empty transaction date.
C18_EveryRecordHasNarrationAndDate ==
  pc = "done" => \A i \in 1..Len(df) : has_narration_and_date(df[i])

\* C18, for RBL alone: every record has a narration and a transaction date
C18_EveryRecordHasNarrationAndDateRbl ==
  (pc = "done" /\ bank = "RBL Bank") =>
     \A i \in 1..Len(df) : has_narration_and_date(df[i])

\* The role of the narration in the mapping of the dialect
NarrationRole(b) ==
  CASE b = "AXIS" -> "Particulars"
    [] b = "Jana Bank" -> "Description"
    [] b = "RBL Bank" -> "Transaction Details"

\* No header of the sheet is mapped to the narration role, or none to the
\* transaction-date role
narration_or_date_unmapped(b, sheet_columns) ==
  LET mapping == map_columns(b, headers(sheet_columns))
  IN NarrationRole(b) \notin DOMAIN mapping \/ "Transaction Date" \notin DOMAIN mapping

\* C16 (as stated): in AXIS, Jana and RBL, when no header is mapped to the
\* narration role or none to the transaction-date role, process_file ends with an
\* error and returns no table: the run goes from the upload to the failure and
\* nowhere else.
C16_UnmappedRoleFails ==
  (bank \in MappingBanks /\ narration_or_date_unmapped(bank, columns)) =>
     /\ pc \in {"upload", "failed"}
     /\ df = <<>>

\* C16, for AXIS and RBL alone: an unmapped narration or date role fails the file
C16_UnmappedRoleFailsAxisRbl ==
  (bank \in {"AXIS", "RBL Bank"} /\ narration_or_date_unmapped(bank, columns)) =>
     /\ pc \in {"upload", "failed"}
     /\ df = <<>>
     /\ pc = "failed" => error = "Exception"

\* C17: when the sheet of an ICICI file has not the number of columns the dialect
\* expects (ten for the yearly, nine for the monthly), the only step process_file
\* takes is the one that raises ValueError: no row is parsed before it, no table
\* is returned, and nothing happens after it.
C17_WrongColumnCountFailsAtOnce ==
  [][ (bank \in IciciBanks /\ Len(columns) # Len(self_columns(bank))) =>
        /\ pc = "upload"
        /\ pc' \in {"upload", "failed"}
        /\ df' = <<>> /\ remarks' = <<>>
        /\ pc' = "failed" => error' = "ValueError" ]_vars

\* C17 witness: a monthly sheet with rows was uploaded as a yearly statement and
\* process_file has raised
C17_Witness ==
  /\ pc = "failed"
  /\ bank = "ICICI Yearly"
  /\ Len(columns) = 9
  /\ Len(sheet) = 2
  /\ raw # <<>>
  /\ error = "ValueError"
  /\ df = <<>>

\* ------------------------------------------------------------ C21 .. C30

\* The leading tag of a narration of tokens
leading_tag(parts) == parts[1]

\* The tags PAYMENT_CATEGORY_MAP has an entry for
lookup_tags ==
  {<<"C","L","G">>, <<"C","A","S","H">>, <<"I","N","F">>, <<"I","N","F","T">>, <<"T","R","F">>, <<"M","M","T">>, <<"N","E","F","T">>, <<"R","T","G","S">>, <<"I","M","P","S">>, <<"I","F","T">>, <<"I","N","B","/","I","F","T">>,
   <<"I","N","B","/","R","T","G","S">>}

\* C21 (as stated): in every dialect the category of a parsed non-empty narration
\* is the entry of the lookup for its leading tag, and the tag itself, unchanged,
\* when the lookup has no entry for it
C21_CategoryIsLookupOfTag ==
  (pc = "pa_done" /\ pa_parts # <<>>) =>
     pa_parsed[1] = get_payment_category(leading_tag(pa_parts))

\* C21, for the upper-case tags of ICICI that do not start with REJECT and are
\* not corrected as cash afterwards: the category is the lookup of the tag
C21_CategoryIsLookupOfTagIcici ==
  (/\ pc = "pa_done" /\ pa_parts # <<>> /\ pa_bank = "ICICI"
   /\ leading_tag(pa_parts) = Upper(leading_tag(pa_parts))
   /\ ~StartsWith(leading_tag(pa_parts), <<"R","E","J","E","C","T">>)) =>
     pa_parsed[1] = get_payment_category(leading_tag(pa_parts))

\* C22 (as stated): a narration that contains a supplier keyword and matches no
\* trigger of Cheque Reject, Collections or Expense is tagged Supplier Payment,
\* and NA is returned only for a narration with no supplier keyword and without
\* the texts "DD/CC ISSUED" and "DD ISSUED"
C22_SupplierKeywordGivesSupplierPayment ==
  (pc = "cl_done") =>
     LET d == normalize_narration(cl_description)
         c == normalize_narration(cl_category)
         keyword == ContainsAny(d, supplier_keywords)
     IN /\ ( /\ keyword
             /\ ~TriggerChequeReject(d, c, cl_rejected)
             /\ ~TriggerCollections(d, c)
             /\ ~TriggerExpense(d) ) => cl_remark = "Supplier Payment"
        /\ cl_remark = "NA" =>
             ( /\ ~keyword
               /\ ~Contains(d, <<"D","D","/","C","C"," ","I","S","S","U","E","D">>) /\ ~Contains(d, <<"D","D"," ","I","S","S","U","E","D">>) )

\* C22, for the narrations that do not start with CAM/: the keyword gives
\* Supplier Payment when no earlier rule matches, and NA has no keyword
C22_SupplierKeywordUnlessCam ==
  (pc = "cl_done" /\ ~StartsWith(normalize_narration(cl_description), <<"C","A","M","/">>)) =>
     LET d == normalize_narration(cl_description)
         c == normalize_narration(cl_category)
         keyword == ContainsAny(d, supplier_keywords)
     IN /\ ( /\ keyword
             /\ ~TriggerChequeReject(d, c, cl_rejected)
             /\ ~TriggerCollections(d, c)
             /\ ~TriggerExpense(d) ) => cl_remark = "Supplier Payment"
        /\ cl_remark = "NA" =>
             ( /\ ~keyword
               /\ ~Contains(d, <<"D","D","/","C","C"," ","I","S","S","U","E","D">>) /\ ~Contains(d, <<"D","D"," ","I","S","S","U","E","D">>) )

\* The name the extraction strategy of a dialect selects in a narration, before
\* the end of parse_transaction_description cleans it
candidate(b, description) ==
  LET clean == Strip(description) IN
  CASE b = "ICICI" ->
         LET parts == split_transaction_description(description)
         IN IF parts = <<>> \/ StartsWith(Upper(parts[1]), <<"R","E","J","E","C","T">>) THEN <<>>
            ELSE icici_extract_party(parts, description)
    [] b = "AXIS" ->
         LET parts == StripParts(Split(clean, "/"))
         IN axis_extract_party_names(parts, axis_detect_category(parts, clean)[1])
    [] b = "Jana Bank" -> jana_parse_branch(clean)[2]
    [] b = "RBL Bank" ->
         LET parts == split_transaction_description(clean)
         IN IF Contains(Upper(clean), <<"I","M","P","S">>) /\ ~Contains(clean, <<"/">>)
            THEN rbl_parse_imps_words(clean)
            ELSE rbl_parse_parts(parts, clean)[2]

\* C23 (as stated): in every dialect a non-empty party name of the parsed
\* narration is clean_party_name of the candidate the strategy selected: no name
\* bypasses the normalizer and none is selected after it ran
C23_PartyIsCleanedCandidate ==
  (pc = "pa_done" /\ pa_parts # <<>> /\ pa_parsed[2] # <<>>) =>
     pa_parsed[2] = clean_party_name(candidate(pa_bank, narration_of(pa_parts)))

\* C23, for Jana alone: the party is the cleaned candidate
C23_PartyIsCleanedCandidateJana ==
  (pc = "pa_done" /\ pa_parts # <<>> /\ pa_parsed[2] # <<>> /\ pa_bank = "Jana Bank") =>
     pa_parsed[2] = clean_party_name(candidate(pa_bank, narration_of(pa_parts)))


\* C24: when the leading token of the narration starts with REJECT, in any case,
\* ICICIParser.parse_transaction_description returns the category REJECT with
\* both party names empty, whatever tokens follow: no name is extracted or
\* recovered
C24_RejectHasNoParty ==
  (/\ pc = "pa_done" /\ pa_bank = "ICICI" /\ pa_parts # <<>>
   /\ StartsWith(Upper(leading_tag(pa_parts)), <<"R","E","J","E","C","T">>)) =>
     pa_parsed = <<<<"R","E","J","E","C","T">>, <<>>, <<>>>>

\* C24 witness: a mixed-case REJECT tag followed by a token the recovery would
\* have taken as the name, parsed as REJECT without a party
C24_Witness ==
  /\ pc = "pa_done" /\ pa_bank = "ICICI"
  /\ pa_parts = <<<<"R","e","j","e","c","t",":","1","2">>, <<"0","0","0","1","2","3">>, <<"R","A","V","I"," ","K","U","M","A","R"," ","A">>>>
  /\ icici_recover_part(pa_parts) = <<"R","A","V","I"," ","K","U","M","A","R"," ","A">>
  /\ pa_parsed = <<<<"R","E","J","E","C","T">>, <<>>, <<>>>>

\* A parsed narration the parser treated as a cash transaction
is_cash(parsed) == Contains(Upper(parsed[1]), <<"C","A","S","H">>)

\* The party names of a cash narration come from its trailing token alone: they
\* are empty, or the trailing token is a valid name and both are that token,
\* as written or cleaned
cash_party_is_trailing(parts, parsed) ==
  LET trailing == parts[Len(parts)] IN
    /\ parsed[2] = parsed[3]
    /\ parsed[2] # <<>> =>
         ( /\ is_valid_party_name(trailing)
           /\ parsed[2] \in {trailing, clean_party_name(trailing)} )

\* C25 (as stated): in every dialect the only party candidate of a cash
\* narration is its trailing token: when that token is no valid name both party
\* names are empty, and the cash category is assigned all the same
C25_CashPartyIsTrailingToken ==
  (pc = "pa_done" /\ pa_parts # <<>> /\ is_cash(pa_parsed)) =>
     cash_party_is_trailing(pa_parts, pa_parsed)

\* C25, for AXIS and Jana alone: the party of a cash narration is empty or its
\* trailing token
C25_CashPartyIsTrailingTokenAxisJana ==
  (/\ pc = "pa_done" /\ pa_parts # <<>> /\ is_cash(pa_parsed)
   /\ pa_bank \in {"AXIS", "Jana Bank"}) =>
     cash_party_is_trailing(pa_parts, pa_parsed)

\* No token after the type is a party name on its own
no_single_party(parts) == \A i \in 2..Len(parts) : ~party_ok(parts[i])

\* The first window of two, then three, contiguous tokens after the type, by
\* start and then by length, that is a valid name without a bank keyword; ""
\* when there is none
first_window(parts) == FirstCombined(parts, 2, Len(parts), Len(parts), 2, party_ok)

\* C26 (as stated): when no single token after the type of a NEFT narration is a
\* party name, the strategy of every dialect that handles it selects the first
\* window of 2 or 3 contiguous tokens that qualifies, and no name only when no
\* window qualifies
C26_PartyIsFirstWindow ==
  (/\ pc = "pa_done" /\ pa_parts # <<>> /\ pa_parsed[1] = <<"N","E","F","T">>
   /\ no_single_party(pa_parts)) =>
     candidate(pa_bank, narration_of(pa_parts)) = first_window(pa_parts)

\* C26, for ICICI alone and narrations of up to MaxParts tokens after the type:
\* the strategy selects the first window
C26_PartyIsFirstWindowIcici ==
  (/\ pc = "pa_done" /\ pa_parts # <<>> /\ pa_parsed[1] = <<"N","E","F","T">>
   /\ no_single_party(pa_parts) /\ pa_bank = "ICICI") =>
     candidate(pa_bank, narration_of(pa_parts)) = first_window(pa_parts)

\* An INF or INFT narration whose second token is a sub-type
typed_inf(parts) ==
  /\ Len(parts) >= 2
  /\ Upper(parts[1]) \in {<<"I","N","F">>, <<"I","N","F","T">>}
  /\ parts[2] \in {<<"N","E","F","T">>, <<"R","T","G","S">>, <<"I","M","P","S">>}

\* The tokens of parts at the positions of S, in their order
tokens_at(parts, S) ==
  LET kept[i \in 0..Len(parts)] ==
        IF i = 0 THEN <<>>
        ELSE IF i \in S THEN Append(kept[i - 1], parts[i]) ELSE kept[i - 1]
  IN kept[Len(parts)]

\* The name is made of tokens after the tag, the sub-type and the reference
\* (index 3 onward, the fourth token here), as written or cleaned
from_index_3(parts, name) ==
  \E S \in SUBSET (4..Len(parts)) :
     /\ S # {}
     /\ name \in {JoinSpace(tokens_at(parts, S)), clean_party_name(JoinSpace(tokens_at(parts, S)))}

\* C27 (as stated): for an ICICI narration INF or INFT whose second token is
\* NEFT, RTGS or IMPS the party is never taken from the tokens at index 0, 1 or
\* 2: it is made of tokens from index 3 onward, and it is empty when none of them
\* qualifies
C27_TypedInfPartyAfterReference ==
  (pc = "pa_done" /\ pa_bank = "ICICI" /\ typed_inf(pa_parts)) =>
     /\ pa_parsed[2] # <<>> => from_index_3(pa_parts, pa_parsed[2])
     /\ pa_parsed[3] # <<>> => from_index_3(pa_parts, pa_parsed[3])

\* C27, for _parse_inf_transaction alone: the name the strategy returns is made
\* of tokens from index 3 onward
C27_TypedInfStrategyAfterReference ==
  (pc = "pa_done" /\ pa_bank = "ICICI" /\ typed_inf(pa_parts)) =>
     LET found == icici_parse_inf_transaction(pa_parts)
     IN found # <<>> => from_index_3(pa_parts, found)

\* The remark classify_transaction_remark gives the row at position i of the
\* table from the narration and the category of that row
own_remark(frame, i) ==
  classify_transaction_remark(Str(fillna(frame[i].narration)), Str(frame[i].category),
                              rejected_cheque_numbers)

\* C28 (as stated): add_remark_column does not fail, on tables whose labels are
\* not 0..n-1 either (an ICICI frame after dropna), and when it has ended the
\* Remark column has one entry per row, in row order, each the remark of that
\* row's own narration and category
C28_EveryRowGetsItsOwnRemark ==
  /\ error # "KeyError"
  /\ pc = "done" =>
       /\ Len(remarks) = Len(df)
       /\ \A i \in 1..Len(df) : df[i].remark = remarks[i] /\ remarks[i] = own_remark(df, i)

\* C28, for the tables whose labels are 0..n-1: when add_remark_column has
\* ended every row has the remark of its own narration and category
C28_OwnRemarkWhenLabelsArePositions ==
  (pc = "done" /\ \A i \in 1..Len(df) : df[i].label = i - 1) =>
       /\ Len(remarks) = Len(df)
       /\ \A i \in 1..Len(df) : df[i].remark = remarks[i] /\ remarks[i] = own_remark(df, i)

\* C28: add_remark_column fails exactly on the tables one of whose labels is
\* not its position
C28_KeyErrorIffLabelsMoved ==
  (pc \in {"done", "failed"} /\ error \in {"", "KeyError"}) =>
     (error = "KeyError" <=> \E i \in 1..Len(df) : df[i].label # i - 1)

\* The narration is a CLG entry: it starts with CLG/ once stripped and upper-cased
is_clg_row(description) == StartsWith(normalize_narration(description), <<"C","L","G","/">>)

\* The remark of a row from its narration and category alone, no cheque rejected
remark_alone(description, payment_category) ==
  classify_transaction_remark(description, payment_category, {})

\* The remark is the row's own, or the row is a CLG entry lifted to Cheque Reject
row_local_or_lifted(description, payment_category, remark) ==
  \/ remark = remark_alone(description, payment_category)
  \/ is_clg_row(description) /\ remark = "Cheque Reject"

\* C29 (as stated): when process_file has ended, with add_remark_column reached,
\* every row whose narration does not start with CLG/ has the remark of its own
\* narration and category, whatever other rows stand in the sheet, and a CLG row
\* has its own remark or Cheque Reject
C29_RemarkIsRowLocalUnlessClg ==
  (pc \in {"done", "failed"} /\ error \in {"", "KeyError"}) =>
     \A i \in 1..Len(df) :
        row_local_or_lifted(Str(fillna(df[i].narration)), Str(df[i].category), df[i].remark)

\* C29, for the runs in which add_remark_column does not raise KeyError (C28):
\* the remark of a row that is no CLG entry is the row's own, a CLG row has its
\* own remark or Cheque Reject
C29_RemarkIsRowLocalWhenDone ==
  (pc = "done") =>
     \A i \in 1..Len(df) :
        row_local_or_lifted(Str(fillna(df[i].narration)), Str(df[i].category), df[i].remark)

\* C29, for classify_transaction_remark alone: the rejected set changes the
\* remark of no narration but a CLG entry, and that one only to Cheque Reject
C29_RejectedSetOnlyLiftsClg ==
  (pc = "cl_done") => row_local_or_lifted(cl_description, cl_category, cl_remark)

\* The serial numbers of the records, in their order
serial_numbers(records) == [i \in 1..Len(records) |-> records[i].sn]

\* 1, 2, .., n
one_to(n) == [i \in 1..n |-> i]

\* C30: in RBLParser.process_file the serial numbers of the emitted records are
\* 1..n in output order, in the returned table too, and the counter is one more
\* than the number of records emitted so far: it advances only when a row is
\* emitted, a skipped or dropped row leaves it alone
C30_SerialNumbersAreOneToN ==
  (bank = "RBL Bank") =>
     /\ serial_numbers(processed_data) = one_to(Len(processed_data))
     /\ serial_number >= 1 => serial_number = Len(processed_data) + 1
     /\ pc = "done" => serial_numbers(df) = one_to(Len(processed_data))

\* C30 witness: a returned RBL table of two records numbered 1 and 2 from a
\* sheet of three rows whose second row gave no record
C30_Witness ==
  /\ bank = "RBL Bank" /\ pc = "done"
  /\ Len(sheet) = 3 /\ Len(df) = 2
  /\ rbl_process_row(1, FrameRow(0, sheet[1])) # <<>>
  /\ rbl_process_row(2, FrameRow(1, sheet[2])) = <<>>
  /\ serial_numbers(df) = <<1, 2>>
  /\ serial_number = 3

====
